---- MODULE Spec2Model ----
(***************************************************************************)
(* A model of the LINE schedule bot (src/app.py): the natural-language     *)
(* date/time parser parse_natural_input / parse_schedule_input and the     *)
(* date windows of the ScheduleManager range queries.                      *)
(*                                                                         *)
(* Text is a sequence of characters.  TLA+ strings are ASCII, so the       *)
(* Chinese characters of the source are written by their pinyin:           *)
(*   jin tian = 今天   ming tian = 明天   hou tian = 後天                  *)
(*   shang wu = 上午   xia wu = 下午      wan shang = 晚上                 *)
(*   dian = 點   shi = 時   yue = 月   hao = 號   ri = 日                  *)
(*   xin zeng xing cheng = 新增行程                                        *)
(* "A" and "B" stand for any other printable character.                    *)
(***************************************************************************)
EXTENDS Integers, Sequences, FiniteSets, TLC

VARIABLES now, hostBehind, op, text, msg, result, window,
          useSheets, sheet, memory_storage, args, ret,
          timers, pushes, reply

\* the store, the arguments of the last store command and what it returned
storeVars == <<useSheets, sheet, memory_storage, args, ret>>

\* the reply texts of handle_message, each by what it says
Reply ==
    [ added |-> "schedule added",
      past_date |-> "cannot add a past date",
      add_failed |-> "adding failed",
      add_format |-> "format error, the supported formats",
      unknown |-> "unknown command",
      list |-> "the schedules of the period",
      no_schedules |-> "no schedules in the period",
      id_found |-> "the details of the schedule",
      id_not_found |-> "no schedule with this id, or not yours",
      id_deleted |-> "schedule deleted, with its date, content and id",
      id_not_deleted |-> "no schedule with this id, or already deleted",
      keyword_deleted |-> "deleted the schedule containing the keyword",
      keyword_not_found |-> "no schedule matches the date and keyword",
      date_format |-> "date format error",
      delete_format |-> "format error, use: delete date keyword",
      delete_empty |-> "say which schedule to delete",
      countdown_started |-> "countdown started",
      countdown_range |-> "countdown range error",
      countdown_format |-> "countdown format error" ]

\* reply_text before the handler has set it
NoReply == "none"

\* the countdown timers that are running, and the pushes attempted so far
jobVars == <<timers, pushes>>

vars == <<now, hostBehind, op, text, msg, result, window,
          useSheets, sheet, memory_storage, args, ret, timers, pushes,
          reply>>

-----------------------------------------------------------------------------
(* Characters *)

Digits == <<"0", "1", "2", "3", "4", "5", "6", "7", "8", "9">>

Digit == {Digits[i] : i \in 1..Len(Digits)}

\* what \s matches and str.strip() removes
Space == {" ", "\n"}

Alphabet ==
    Digit \cup Space \cup
    {"jin", "tian", "ming", "hou", "shang", "wu", "xia", "wan", "dian", "shi",
     "yue", "hao", "ri", "xin", "zeng", "xing", "cheng", "/", ":", "-", "A", "B"}

\* what . matches: any character but the newline
Dot == Alphabet \ {"\n"}

\* Python's None, as the value of a result field
None == <<"None">>

-----------------------------------------------------------------------------
(* int(), f"{n}", f"{n:02d}" *)

DigitVal(c) == (CHOOSE i \in 1..Len(Digits) : Digits[i] = c) - 1

RECURSIVE int(_)
int(s) ==
    IF s = <<>> THEN 0
    ELSE int(SubSeq(s, 1, Len(s) - 1)) * 10 + DigitVal(s[Len(s)])

RECURSIVE str(_)
str(n) ==
    IF n < 10 THEN <<Digits[n + 1]>>
    ELSE Append(str(n \div 10), Digits[(n % 10) + 1])

RECURSIVE ZeroPad(_, _)
ZeroPad(s, w) == IF Len(s) >= w THEN s ELSE ZeroPad(<<"0">> \o s, w)

\* f"{n:02d}"
Fmt02d(n) == ZeroPad(str(n), 2)

-----------------------------------------------------------------------------
(* datetime.date: validity, ordinals, timedelta, weekday, strftime *)

Date(y, m, d) == [year |-> y, month |-> m, day |-> d]

is_leap(y) == y % 4 = 0 /\ (y % 100 # 0 \/ y % 400 = 0)

DAYS_IN_MONTH == <<31, 28, 31, 30, 31, 30, 31, 31, 30, 31, 30, 31>>

days_in_month(y, m) == IF m = 2 /\ is_leap(y) THEN 29 ELSE DAYS_IN_MONTH[m]

\* mutant of ValidDate: every month is taken to have 31 days
ValidDate_Day31(y, m, d) ==
    /\ y \in 1..9999
    /\ m \in 1..12
    /\ d >= 1 /\ d <= 31

\* datetime(y, m, d) raises ValueError unless this holds
ValidDate(y, m, d) ==
    /\ y \in 1..9999
    /\ m \in 1..12
    /\ d >= 1 /\ d <= days_in_month(y, m)

days_before_year(y) ==
    (y - 1) * 365 + ((y - 1) \div 4) - ((y - 1) \div 100) + ((y - 1) \div 400)

DAYS_BEFORE_MONTH == <<0, 31, 59, 90, 120, 151, 181, 212, 243, 273, 304, 334>>

DaysBefore(m, leap) == DAYS_BEFORE_MONTH[m] + (IF m > 2 /\ leap THEN 1 ELSE 0)

days_before_month(y, m) == DaysBefore(m, is_leap(y))

toordinal(dt) ==
    days_before_year(dt.year) + days_before_month(dt.year, dt.month) + dt.day

fromordinal(ord) ==
    LET n0   == ord - 1
        n400 == n0 \div 146097
        r400 == n0 % 146097
        n100 == r400 \div 36524
        r100 == r400 % 36524
        n4   == r100 \div 1461
        r4   == r100 % 1461
        n1   == r4 \div 365
        n    == r4 % 365
        y    == n400 * 400 + 1 + n100 * 100 + n4 * 4 + n1
        leap == n1 = 3 /\ (n4 # 24 \/ n100 = 3)
        m0   == (n + 50) \div 32
        p0   == DaysBefore(m0, leap)
        m    == IF p0 > n THEN m0 - 1 ELSE m0
        p    == DaysBefore(m, leap)
    IN  IF n1 = 4 \/ n100 = 4 THEN Date(y - 1, 12, 31)
        ELSE Date(y, m, n - p + 1)

\* date + timedelta(days=k)
AddDays(dt, k) == fromordinal(toordinal(dt) + k)

\* date.weekday(): Monday is 0
weekday(dt) == (toordinal(dt) + 6) % 7

\* strftime('%Y-%m-%d')
strftime_ymd(dt) ==
    ZeroPad(str(dt.year), 4) \o <<"-">> \o Fmt02d(dt.month) \o <<"-">> \o Fmt02d(dt.day)

-----------------------------------------------------------------------------
(* The clock.  now is the instant on the Asia/Taipei clock; the host's     *)
(* local clock is hostBehind hours behind it (0: the host runs in          *)
(* Asia/Taipei, 8: the host runs in UTC).                                  *)

\* datetime.now(TZ).date()
TodayTZ == now.date

\* datetime.now().year: the host's local year
HostYear ==
    IF now.hour < hostBehind THEN AddDays(now.date, -1).year ELSE now.date.year

-----------------------------------------------------------------------------
(* re.match: a pattern is a sequence of elements, each a character class   *)
(* repeated min..max times, greedy, with backtracking; cap marks a         *)
(* parenthesised group.  The match is anchored at the start of the text    *)
(* and need not reach its end.                                             *)

\* many: the repetition has no upper limit (*, +); max is then not read
El(set, min, max, many, cap) ==
    [set |-> set, min |-> min, max |-> max, many |-> many, cap |-> cap]

Lit(c) == <<El({c}, 1, 1, FALSE, FALSE)>>

OneOf(S) == <<El(S, 1, 1, FALSE, FALSE)>>

\* \s*
Ws0 == <<El(Space, 0, 0, TRUE, FALSE)>>

\* \s+
Ws1 == <<El(Space, 1, 1, TRUE, FALSE)>>

\* (\d{1,2})
D12 == <<El(Digit, 1, 2, FALSE, TRUE)>>

\* (\d{2})
D2 == <<El(Digit, 2, 2, FALSE, TRUE)>>

\* (\d{4})
D4 == <<El(Digit, 4, 4, FALSE, TRUE)>>

\* (.+)
Rest == <<El(Dot, 1, 1, TRUE, TRUE)>>

NoMatch == [ok |-> FALSE, groups |-> <<>>]

\* the length of the longest run of characters of set from position i
RECURSIVE RunLen(_, _, _)
RunLen(t, i, set) ==
    IF i > Len(t) \/ t[i] \notin set THEN 0 ELSE 1 + RunLen(t, i + 1, set)

\* greedy: the most characters element e can take at position i
Greedy(e, t, i) ==
    LET run == RunLen(t, i, e.set)
    IN  IF e.many \/ run <= e.max THEN run ELSE e.max

RECURSIVE MatchAt(_, _, _, _, _)
RECURSIVE TryRep(_, _, _, _, _, _)

\* element k consumes n characters at i; on failure of the rest, one fewer
TryRep(pat, k, t, i, n, groups) ==
    IF n < pat[k].min THEN NoMatch
    ELSE LET g == IF pat[k].cap THEN Append(groups, SubSeq(t, i, i + n - 1))
                  ELSE groups
             r == MatchAt(pat, k + 1, t, i + n, g)
         IN  IF r.ok THEN r ELSE TryRep(pat, k, t, i, n - 1, groups)

MatchAt(pat, k, t, i, groups) ==
    IF k > Len(pat) THEN [ok |-> TRUE, groups |-> groups]
    ELSE TryRep(pat, k, t, i, Greedy(pat[k], t, i), groups)

re_match(pat, t) == MatchAt(pat, 1, t, 1, <<>>)

-----------------------------------------------------------------------------
(* str.strip(), str.replace(old, '') *)

RECURSIVE lstrip(_)
lstrip(s) == IF s # <<>> /\ s[1] \in Space THEN lstrip(Tail(s)) ELSE s

RECURSIVE rstrip(_)
rstrip(s) ==
    IF s # <<>> /\ s[Len(s)] \in Space THEN rstrip(SubSeq(s, 1, Len(s) - 1)) ELSE s

strip(s) == lstrip(rstrip(s))

StartsWith(s, p) == Len(s) >= Len(p) /\ SubSeq(s, 1, Len(p)) = p

\* s.replace(old, ''): every occurrence, left to right, without overlap
RECURSIVE Remove(_, _)
Remove(s, old) ==
    IF s = <<>> THEN <<>>
    ELSE IF StartsWith(s, old) THEN Remove(SubSeq(s, Len(old) + 1, Len(s)), old)
    ELSE <<s[1]>> \o Remove(Tail(s), old)

EndsWith(s, p) == Len(s) >= Len(p) /\ SubSeq(s, Len(s) - Len(p) + 1, Len(s)) = p

-----------------------------------------------------------------------------
(* parse_natural_input: the ordered pattern list.  A pattern type is the   *)
(* source's name split at its underscores, so that str.startswith and      *)
(* str.endswith are computed on it.                                        *)

JinTian == Lit("jin") \o Lit("tian")

MingTian == Lit("ming") \o Lit("tian")

HouTian == Lit("hou") \o Lit("tian")

ShangWu == Lit("shang") \o Lit("wu")

XiaWu == Lit("xia") \o Lit("wu")

WanShang == Lit("wan") \o Lit("shang")

\* [點時]
DianShi == OneOf({"dian", "shi"})

\* [號日]
HaoRi == OneOf({"hao", "ri"})

Pat(re, type) == [re |-> re, type |-> type]

\* the five patterns of one relative day
RelativePatterns(day, name) ==
    << Pat(day \o Ws0 \o D12 \o DianShi \o Ws0 \o Rest, name \o <<"time">>),
       Pat(day \o Ws0 \o ShangWu \o D12 \o DianShi \o Ws0 \o Rest, name \o <<"am">>),
       Pat(day \o Ws0 \o XiaWu \o D12 \o DianShi \o Ws0 \o Rest, name \o <<"pm">>),
       Pat(day \o Ws0 \o WanShang \o D12 \o DianShi \o Ws0 \o Rest, name \o <<"pm">>),
       Pat(day \o Ws0 \o Rest, name \o <<"only">>) >>

\* (\d{1,2})月(\d{1,2})[號日]
ChineseDate == D12 \o Lit("yue") \o D12 \o HaoRi

\* (\d{4})-(\d{1,2})-(\d{1,2})
FullDate == D4 \o Lit("-") \o D12 \o Lit("-") \o D12

patterns ==
    RelativePatterns(JinTian, <<"today">>)
    \o RelativePatterns(MingTian, <<"tomorrow">>)
    \o RelativePatterns(HouTian, <<"day", "after", "tomorrow">>)
    \o << Pat(D12 \o Lit("/") \o D12 \o Ws1 \o D12 \o Lit(":") \o D2 \o Ws1 \o Rest,
              <<"date", "time">>),
          Pat(D12 \o Lit("/") \o D12 \o Ws1 \o Rest, <<"date", "only">>),
          Pat(ChineseDate \o Ws0 \o XiaWu \o D12 \o DianShi \o Ws0 \o Rest,
              <<"chinese", "pm">>),
          Pat(ChineseDate \o Ws0 \o ShangWu \o D12 \o DianShi \o Ws0 \o Rest,
              <<"chinese", "am">>),
          Pat(ChineseDate \o Ws0 \o WanShang \o D12 \o DianShi \o Ws0 \o Rest,
              <<"chinese", "pm">>),
          Pat(ChineseDate \o Ws0 \o D12 \o DianShi \o Ws0 \o Rest,
              <<"chinese", "default">>),
          Pat(ChineseDate \o Ws0 \o Rest, <<"chinese", "date", "only">>),
          Pat(FullDate \o Ws1 \o D12 \o Lit(":") \o D2 \o Ws1 \o Rest,
              <<"full", "date", "time">>),
          Pat(FullDate \o Ws1 \o Rest, <<"full", "date", "only">>) >>

Parsed(date_str, time_str, content) ==
    [date |-> date_str, time |-> time_str, content |-> content]

\* return None, None, None
NoResult == Parsed(None, None, None)

\* the outcome of the try block for one matched pattern
Return(val) == [ret |-> TRUE, val |-> val]

\* continue: after a failed validation, after ValueError, or when no branch
\* of the try block handles the pattern type
Continue == [ret |-> FALSE, val |-> NoResult]

\* f"{hour:02d}:00"
HourTime(hour) == Fmt02d(hour) \o <<":", "0", "0">>

\* f"{current_year}-{int(month):02d}-{int(day):02d}"
YearMonthDay(year, month, day) ==
    str(year) \o <<"-">> \o Fmt02d(int(month)) \o <<"-">> \o Fmt02d(int(day))

\* mutant of TimeRule: the hour is not validated
TimeRule_NoRangeCheck(date_str, g) ==
    Return(Parsed(date_str, HourTime(int(g[1])), strip(g[2])))

\* mutant of TimeRule: a rejected hour ends the parse
TimeRule_FinalFailure(date_str, g) ==
    LET hour == int(g[1])
    IN  IF hour > 24 THEN Return(NoResult)
        ELSE Return(Parsed(date_str, HourTime(hour), strip(g[2])))

\* hour > 24: continue
TimeRule(date_str, g) ==
    LET hour == int(g[1])
    IN  IF hour > 24 THEN Continue
        ELSE Return(Parsed(date_str, HourTime(hour), strip(g[2])))

\* mutant of AmRule: hour 12 is kept
AmRule_Keeps12(date_str, g) ==
    LET hour == int(g[1])
    IN  IF hour > 12 THEN Continue
        ELSE Return(Parsed(date_str, HourTime(hour), strip(g[2])))

\* hour 12 becomes 0; hour > 12: continue
AmRule(date_str, g) ==
    LET h0   == int(g[1])
        hour == IF h0 = 12 THEN 0 ELSE h0
    IN  IF hour > 12 THEN Continue
        ELSE Return(Parsed(date_str, HourTime(hour), strip(g[2])))

\* mutant of PmRule: 12 is added to hour 12 too
PmRule_Adds12To12(date_str, g) ==
    LET h0   == int(g[1])
        hour == IF h0 <= 12 THEN h0 + 12 ELSE h0
    IN  IF hour > 24 THEN Continue
        ELSE Return(Parsed(date_str, HourTime(hour), strip(g[2])))

\* hour < 12 becomes hour + 12; hour > 24: continue
PmRule(date_str, g) ==
    LET h0   == int(g[1])
        hour == IF h0 < 12 THEN h0 + 12 ELSE h0
    IN  IF hour > 24 THEN Continue
        ELSE Return(Parsed(date_str, HourTime(hour), strip(g[2])))

OnlyRule(date_str, g) == Return(Parsed(date_str, <<>>, strip(g[1])))

\* the branches taken when the pattern type names a relative day
RelativeRule(type, target_date, g) ==
    LET date_str == strftime_ymd(target_date)
    IN  IF EndsWith(type, <<"time">>) /\ Len(type) > 1
            THEN TimeRule(date_str, g)
        ELSE IF EndsWith(type, <<"am">>) /\ Len(type) > 1
            THEN AmRule(date_str, g)
        ELSE IF EndsWith(type, <<"pm">>) /\ Len(type) > 1
            THEN PmRule(date_str, g)
        ELSE IF EndsWith(type, <<"only">>) /\ Len(type) > 1
            THEN OnlyRule(date_str, g)
        ELSE Continue

\* mutant of DateTimeRule: the minutes are dropped, as in the hour rules
DateTimeRule_MinutesDropped(current_year, g) ==
    IF ~ValidDate(current_year, int(g[1]), int(g[2])) THEN Continue
    ELSE Return(Parsed(YearMonthDay(current_year, g[1], g[2]),
                       HourTime(int(g[3])),
                       strip(g[5])))

\* datetime(current_year, int(month), int(day)) raises ValueError: continue
DateTimeRule(current_year, g) ==
    IF ~ValidDate(current_year, int(g[1]), int(g[2])) THEN Continue
    ELSE Return(Parsed(YearMonthDay(current_year, g[1], g[2]),
                       Fmt02d(int(g[3])) \o <<":">> \o g[4],
                       strip(g[5])))

DateOnlyRule(current_year, g) ==
    IF ~ValidDate(current_year, int(g[1]), int(g[2])) THEN Continue
    ELSE Return(Parsed(YearMonthDay(current_year, g[1], g[2]), <<>>, strip(g[3])))

\* the body of the try block
TryRule(type, g, current_year, today) ==
    IF StartsWith(type, <<"today">>) THEN RelativeRule(type, today, g)
    ELSE IF StartsWith(type, <<"tomorrow">>) THEN RelativeRule(type, AddDays(today, 1), g)
    ELSE IF StartsWith(type, <<"day", "after", "tomorrow">>)
        THEN RelativeRule(type, AddDays(today, 2), g)
    ELSE IF type = <<"date", "time">> THEN DateTimeRule(current_year, g)
    ELSE IF type = <<"date", "only">> THEN DateOnlyRule(current_year, g)
    ELSE Continue

\* the for loop over patterns, from pattern k on
RECURSIVE ParseFrom(_, _, _, _)
ParseFrom(t, k, current_year, today) ==
    IF k > Len(patterns) THEN NoResult
    ELSE LET m == re_match(patterns[k].re, strip(t))
             r == TryRule(patterns[k].type, m.groups, current_year, today)
         IN  IF m.ok /\ r.ret THEN r.val
             ELSE ParseFrom(t, k + 1, current_year, today)

parse_natural_input(t) == ParseFrom(t, 1, HostYear, TodayTZ)

\* Python truthiness of a result field: neither None nor ''
Truthy(s) == s # None /\ s # <<>>

XinZengXingCheng == <<"xin", "zeng", "xing", "cheng">>

parse_schedule_input(t) ==
    LET content == strip(Remove(t, XinZengXingCheng))
        r       == parse_natural_input(content)
    IN  IF content = <<>> THEN NoResult
        ELSE IF Truthy(r.date) /\ Truthy(r.content) THEN r
        ELSE NoResult

-----------------------------------------------------------------------------
(* ScheduleManager range queries: the window handed to                     *)
(* get_schedules_by_date_range                                             *)

Window(start_date, end_date) == [start |-> start_date, end |-> end_date]

\* mutant of this_week_window: the week starts on Sunday
this_week_window_SundayStart(today) ==
    LET days_since_sunday == (weekday(today) + 1) % 7
        this_sunday       == AddDays(today, 0 - days_since_sunday)
    IN  Window(this_sunday, AddDays(this_sunday, 6))

this_week_window(today) ==
    LET days_since_monday == weekday(today)
        this_monday       == AddDays(today, 0 - days_since_monday)
        this_sunday       == AddDays(this_monday, 6)
    IN  Window(this_monday, this_sunday)

\* the ValueError date.replace raises for a day the month does not have,
\* written as a date no calendar has
ValueError == [year |-> 0, month |-> 0, day |-> 0]

\* date.replace(year=, month=, day=)
replace(year, month, day) ==
    IF ValidDate(year, month, day) THEN Date(year, month, day) ELSE ValueError

\* calendar.monthrange(year, month)[1]
monthrange(year, month) == days_in_month(year, month)

today_window(today) == Window(today, today)

tomorrow_window(today) ==
    LET tomorrow == AddDays(today, 1)
    IN  Window(tomorrow, tomorrow)

\* mutant of next_week_window: on a Monday the coming Monday is today
next_week_window_MondayIsNext(today) ==
    LET days_until_next_monday == (7 - weekday(today)) % 7
        next_monday            == AddDays(today, days_until_next_monday)
    IN  Window(next_monday, AddDays(next_monday, 6))

next_week_window(today) ==
    LET days_until_next_monday == 7 - weekday(today)
        next_monday            == AddDays(today, days_until_next_monday)
        next_sunday            == AddDays(next_monday, 6)
    IN  Window(next_monday, next_sunday)

\* mutant of this_month_window: February always has 28 days
this_month_window_NoLeap(today) ==
    Window(replace(today.year, today.month, 1),
           replace(today.year, today.month, DAYS_IN_MONTH[today.month]))

this_month_window(today) ==
    LET this_month_start == replace(today.year, today.month, 1)
        last_day         == monthrange(today.year, today.month)
        this_month_end   == replace(today.year, today.month, last_day)
    IN  Window(this_month_start, this_month_end)

\* the window of a month whose first day is next_month_start; a ValueError
\* raised by replace leaves the function
MonthFrom(next_month_start) ==
    IF next_month_start = ValueError THEN Window(ValueError, ValueError)
    ELSE LET year           == next_month_start.year
             month          == next_month_start.month
             last_day       == monthrange(year, month)
             next_month_end == replace(year, month, last_day)
         IN  IF next_month_end = ValueError THEN Window(ValueError, ValueError)
             ELSE Window(next_month_start, next_month_end)

\* mutant of next_month_window: the day of today is kept when the month is
\* replaced
next_month_window_KeepsDay(today) ==
    LET next_month ==
            IF today.month = 12 THEN replace(today.year + 1, 1, today.day)
            ELSE replace(today.year, today.month + 1, today.day)
    IN  IF next_month = ValueError THEN Window(ValueError, ValueError)
        ELSE MonthFrom(replace(next_month.year, next_month.month, 1))

next_month_window(today) ==
    LET next_month_start ==
            IF today.month = 12 THEN replace(today.year + 1, 1, 1)
            ELSE replace(today.year, today.month + 1, 1)
    IN  MonthFrom(next_month_start)

\* mutant of next_year_window: the year ends on 31 December of this year
next_year_window_EndsThisYear(today) ==
    Window(replace(today.year + 1, 1, 1), replace(today.year, 12, 31))

next_year_window(today) ==
    LET next_year_start == replace(today.year + 1, 1, 1)
        next_year_end   == replace(today.year + 1, 12, 31)
    IN  Window(next_year_start, next_year_end)

\* mutant of recent_window: the end is days after today
recent_window_OneMore(today, days) == Window(today, AddDays(today, days))

recent_window(today, days) ==
    LET end_date == AddDays(today, days - 1)
    IN  Window(today, end_date)

\* mutant of two_weeks_later_window: the week is counted from today's date
two_weeks_later_window_FromToday(today) ==
    LET two_weeks_later == AddDays(today, 14)
    IN  Window(two_weeks_later, AddDays(two_weeks_later, 6))

two_weeks_later_window(today) ==
    LET two_weeks_later == AddDays(today, 7 * 2)
        start_of_week   == AddDays(two_weeks_later, 0 - weekday(two_weeks_later))
        end_of_week     == AddDays(start_of_week, 6)
    IN  Window(start_of_week, end_of_week)

-----------------------------------------------------------------------------
(* ScheduleManager: the store.  A record of the sheet or of memory_storage *)
(* has the columns ID, date, time, content, reminder, created, user and    *)
(* status; sheet holds the rows below the header row.                      *)

\* the status words: valid, deleted
YouXiao == <<"you", "xiao">>

YiShanChu == <<"yi", "shan", "chu">>

\* Python's False
False == <<"False">>

\* the value add_schedule returns for a date before today
GuoQuRiQi == <<"guo", "qu", "ri", "qi">>

\* datetime.strptime(s, '%Y-%m-%d').date(), ValueError when s does not parse
strptime_date(s) ==
    LET m == re_match(FullDate, s)
    IN  IF ~m.ok THEN ValueError
        ELSE IF Len(m.groups[1]) + Len(m.groups[2]) + Len(m.groups[3]) + 2 # Len(s)
             THEN ValueError
        ELSE replace(int(m.groups[1]), int(m.groups[2]), int(m.groups[3]))

\* datetime.strptime(s, '%H:%M') succeeds
strptime_time_ok(s) ==
    LET m == re_match(D12 \o Lit(":") \o D12, s)
    IN  /\ m.ok
        /\ Len(m.groups[1]) + Len(m.groups[2]) + 1 = Len(s)
        /\ int(m.groups[1]) <= 23
        /\ int(m.groups[2]) <= 59

\* datetime.now(TZ).strftime('%Y%m%d%H%M%S')
strftime_stamp ==
    ZeroPad(str(now.date.year), 4) \o Fmt02d(now.date.month) \o Fmt02d(now.date.day)
        \o Fmt02d(now.hour) \o Fmt02d(now.minute) \o Fmt02d(now.second)

\* datetime.now(TZ).strftime('%Y-%m-%d %H:%M:%S')
strftime_created ==
    strftime_ymd(now.date) \o <<" ">> \o Fmt02d(now.hour) \o <<":">>
        \o Fmt02d(now.minute) \o <<":">> \o Fmt02d(now.second)

\* s[-4:]
Last4(s) == IF Len(s) <= 4 THEN s ELSE SubSeq(s, Len(s) - 3, Len(s))

\* what a store operation returns and leaves behind
Outcome(r, sh, mem) == [ret |-> r, sheet |-> sh, memory_storage |-> mem]
add_schedule_TodayIsPast(date_str, time_str, content, user_id, write_fails) ==
    IF strptime_date(date_str) = ValueError
       \/ (Truthy(time_str) /\ ~strptime_time_ok(time_str))
    THEN Outcome(False, sheet, memory_storage)
    ELSE IF toordinal(strptime_date(date_str)) <= toordinal(TodayTZ)
    THEN Outcome(GuoQuRiQi, sheet, memory_storage)
    ELSE Outcome(<<"M">> \o strftime_stamp \o Last4(user_id), sheet,
                 Append(memory_storage,
                        [ID |-> <<"M">> \o strftime_stamp \o Last4(user_id),
                         date |-> date_str,
                         time |-> IF Truthy(time_str) THEN time_str ELSE <<>>,
                         content |-> content, reminder |-> <<>>,
                         created |-> strftime_created,
                         user |-> user_id, status |-> YouXiao]))

\* add_schedule(date_str, time_str, content, user_id); write_fails: in sheet
\* mode, append_row raises and the entry goes to memory_storage
add_schedule(date_str, time_str, content, user_id, write_fails) ==
    LET schedule_date == strptime_date(date_str)
        created_time  == strftime_created
        schedule(prefix) ==
            [ID |-> prefix \o strftime_stamp \o Last4(user_id),
             date |-> date_str,
             time |-> IF Truthy(time_str) THEN time_str ELSE <<>>,
             content |-> content, reminder |-> <<>>, created |-> created_time,
             user |-> user_id, status |-> YouXiao]
    IN  IF schedule_date = ValueError THEN Outcome(False, sheet, memory_storage)
        ELSE IF Truthy(time_str) /\ ~strptime_time_ok(time_str)
             THEN Outcome(False, sheet, memory_storage)
        ELSE IF toordinal(schedule_date) < toordinal(TodayTZ)
             THEN Outcome(GuoQuRiQi, sheet, memory_storage)
        ELSE IF useSheets
             THEN IF write_fails
                  THEN Outcome(schedule(<<"M">>).ID, sheet,
                               Append(memory_storage, schedule(<<"M">>)))
                  ELSE Outcome(schedule(<<"S">>).ID, Append(sheet, schedule(<<"S">>)),
                               memory_storage)
        ELSE Outcome(schedule(<<"M">>).ID, sheet,
                     Append(memory_storage, schedule(<<"M">>)))

\* the characters of dates and times, in code point order
CharOrder == <<"-", "0", "1", "2", "3", "4", "5", "6", "7", "8", "9", ":">>

ord(c) == CHOOSE i \in 1..Len(CharOrder) : CharOrder[i] = c

\* a < b for two str values: by the first character that differs, a proper
\* prefix first
RECURSIVE StrLess(_, _)
StrLess(a, b) ==
    IF b = <<>> THEN FALSE
    ELSE IF a = <<>> THEN TRUE
    ELSE IF a[1] # b[1] THEN ord(a[1]) < ord(b[1])
    ELSE StrLess(Tail(a), Tail(b))

\* key(a) < key(b) for key = lambda x: (x['date'], x.get('time', ''))
KeyLess(a, b) ==
    \/ StrLess(a.date, b.date)
    \/ a.date = b.date /\ StrLess(a.time, b.time)

\* x put behind the last record whose key is not greater than its own
RECURSIVE Insert(_, _)
Insert(x, s) ==
    IF s = <<>> THEN <<x>>
    ELSE IF KeyLess(x, s[1]) THEN <<x>> \o s
    ELSE <<s[1]>> \o Insert(x, Tail(s))

\* sorted(records, key=...): stable
RECURSIVE sorted(_)
sorted(records) ==
    IF records = <<>> THEN <<>>
    ELSE Insert(records[Len(records)], sorted(SubSeq(records, 1, Len(records) - 1)))

\* self.sheet.get_all_records() if USE_GOOGLE_SHEETS and self.sheet,
\* else memory_storage
all_records == IF useSheets THEN sheet ELSE memory_storage

\* start_date <= strptime(record['date']).date() <= end_date; a date that
\* does not parse is skipped
InRange(record, start_date, end_date) ==
    LET schedule_date == strptime_date(record.date)
    IN  /\ schedule_date # ValueError
        /\ toordinal(start_date) <= toordinal(schedule_date)
        /\ toordinal(schedule_date) <= toordinal(end_date)

get_schedules_by_date_range(start_date, end_date, user_id) ==
    LET Keep(record) ==
            /\ Truthy(record.date) /\ Truthy(record.content)
            /\ record.status # YiShanChu
            /\ ~(Truthy(user_id) /\ record.user # user_id)
            /\ InRange(record, start_date, end_date)
    IN  sorted(SelectSeq(all_records, Keep))

\* the first of the indices I, 0 when there is none
First(I) == IF I = {} THEN 0 ELSE CHOOSE i \in I : \A j \in I : i <= j

\* self.sheet.update(f'H{row_num}', value): row 1 is the header row
update_H(row_num, value) == [sheet EXCEPT ![row_num - 1].status = value]

\* Python's None where a record is expected
NoRecord ==
    [ID |-> None, date |-> None, time |-> None, content |-> None,
     reminder |-> None, created |-> None, user |-> None, status |-> None]

\* mutant of delete_schedule_by_id: the record is taken out of the store
delete_schedule_by_id_Removes(schedule_id, user_id) ==
    LET Hit(record) ==
            /\ record.ID = schedule_id
            /\ record.user = user_id
            /\ record.status # YiShanChu
        i    == First({k \in 1..Len(all_records) : Hit(all_records[k])})
        rest == SubSeq(all_records, 1, i - 1) \o SubSeq(all_records, i + 1, Len(all_records))
    IN  IF i = 0 THEN Outcome(NoRecord, sheet, memory_storage)
        ELSE IF useSheets THEN Outcome(sheet[i], rest, memory_storage)
        ELSE Outcome(memory_storage[i], sheet, rest)

\* delete_schedule_by_id(schedule_id, user_id): the sheet's record is
\* returned as read, memory_storage's record is the one that was marked
delete_schedule_by_id(schedule_id, user_id) ==
    LET Hit(record) ==
            /\ record.ID = schedule_id
            /\ record.user = user_id
            /\ record.status # YiShanChu
        i       == First({k \in 1..Len(all_records) : Hit(all_records[k])})
        row_num == i + 1
    IN  IF i = 0 THEN Outcome(NoRecord, sheet, memory_storage)
        ELSE IF useSheets
             THEN Outcome(sheet[i], update_H(row_num, YiShanChu), memory_storage)
        ELSE Outcome([memory_storage[i] EXCEPT !.status = YiShanChu], sheet,
                     [memory_storage EXCEPT ![i].status = YiShanChu])

\* sub in s
Contains(s, sub) ==
    \E i \in 0..(Len(s) - Len(sub)) : SubSeq(s, i + 1, i + Len(sub)) = sub

\* delete_schedule(user_id, date_str, content_keyword)
delete_schedule(user_id, date_str, content_keyword) ==
    LET Hit(record) ==
            /\ record.user = user_id
            /\ record.date = date_str
            /\ Contains(record.content, content_keyword)
            /\ record.status # YiShanChu
        i       == First({k \in 1..Len(all_records) : Hit(all_records[k])})
        row_num == i + 1
    IN  IF i = 0 THEN Outcome(FALSE, sheet, memory_storage)
        ELSE IF useSheets
             THEN Outcome(TRUE, update_H(row_num, YiShanChu), memory_storage)
        ELSE Outcome(TRUE, sheet, [memory_storage EXCEPT ![i].status = YiShanChu])

\* get_two_weeks_later_schedules(): schedules_by_user, the records of the
\* window for each user who has any, each list sorted
schedules_by_user(today) ==
    LET w == two_weeks_later_window(today)
        Collected(record) ==
            /\ Truthy(record.date) /\ Truthy(record.content) /\ Truthy(record.user)
            /\ record.status # YiShanChu
            /\ InRange(record, w.start, w.end)
        found == SelectSeq(all_records, Collected)
        users == {found[i].user : i \in 1..Len(found)}
    IN  [user_id \in users |->
            LET Mine(record) == record.user = user_id
            IN  sorted(SelectSeq(found, Mine))]

\* get_schedule_by_id(schedule_id, user_id): the first record with the id that
\* is not deleted, and None when it is another user's
get_schedule_by_id(schedule_id, user_id) ==
    LET Hit(record) == record.ID = schedule_id /\ record.status # YiShanChu
        i == First({k \in 1..Len(all_records) : Hit(all_records[k])})
    IN  IF i = 0 THEN NoRecord
        ELSE IF Truthy(user_id) /\ all_records[i].user # user_id THEN NoRecord
        ELSE all_records[i]

\* the keys of schedules_by_user in the order of dict.items(): a user comes
\* where the first collected record of that user stands
items_order(today) ==
    LET by_user == schedules_by_user(today)
        w == two_weeks_later_window(today)
        Opens(k) ==
            /\ all_records[k].user \in DOMAIN by_user
            /\ all_records[k].status # YiShanChu
            /\ Truthy(all_records[k].date) /\ Truthy(all_records[k].content)
            /\ InRange(all_records[k], w.start, w.end)
            /\ \A j \in 1..(k - 1) :
                 ~(/\ all_records[j].user = all_records[k].user
                   /\ all_records[j].status # YiShanChu
                   /\ Truthy(all_records[j].date) /\ Truthy(all_records[j].content)
                   /\ InRange(all_records[j], w.start, w.end))
        RECURSIVE From(_)
        From(k) == IF k > Len(all_records) THEN <<>>
                   ELSE IF Opens(k) THEN <<all_records[k].user>> \o From(k + 1)
                   ELSE From(k + 1)
    IN  From(1)

\* str.find(c) + 1: the place of the first c in s, 0 when there is none
Find(s, c) == First({i \in 1..Len(s) : s[i] = c})

\* s.split(c, 1)
split_once(s, c) ==
    IF Find(s, c) = 0 THEN <<s>>
    ELSE <<SubSeq(s, 1, Find(s, c) - 1), SubSeq(s, Find(s, c) + 1, Len(s))>>

\* int(s) raises ValueError
NotInt(s) == s = <<>> \/ \E i \in 1..Len(s) : s[i] \notin Digit

Raised == <<"raised">>

\* handle_message, 刪除行程: the date handed to delete_schedule, from the date
\* as written; Raised when the code raises
delete_date(date_part) ==
    LET current_year == HostYear
        Ymd(month, day) == str(current_year) \o <<"-">> \o Fmt02d(int(month))
                               \o <<"-">> \o Fmt02d(int(day))
    IN  IF Find(date_part, "/") # 0
        THEN LET month == split_once(date_part, "/")[1]
                 day   == split_once(date_part, "/")[2]
             IN  IF Find(day, "/") # 0 \/ NotInt(month) \/ NotInt(day) THEN Raised
                 ELSE Ymd(month, day)
        ELSE IF Find(date_part, "yue") # 0
                /\ (Find(date_part, "hao") # 0 \/ Find(date_part, "ri") # 0)
        THEN LET match == re_match(ChineseDate, date_part)
             IN  IF match.ok THEN Ymd(match.groups[1], match.groups[2])
                 ELSE date_part
        ELSE date_part

ShanChuXingCheng == <<"shan", "chu", "xing", "cheng">>

-----------------------------------------------------------------------------
(* Messages.  A message is composed of a date phrase, an optional time     *)
(* phrase, the content and what follows the content; Render writes it out  *)
(* as the text the user sends.                                             *)

MaxHour == 26

MaxMonth == 13

MaxDay == 32

BaseMsg ==
    [form |-> "rel", day |-> "jin", y |-> <<>>, m |-> <<>>, d |-> <<>>,
     suffix |-> "hao", sp1 |-> <<>>, tform |-> "none", q |-> "none",
     hour |-> <<>>, mark |-> "dian", minute |-> <<>>, sp2 |-> <<>>,
     content |-> <<"A", "B">>, tail |-> <<>>]

DayWords == {"jin", "ming", "hou"}

Quals == {"none", "am", "pm", "evening"}

Seps == {<<>>, <<" ">>}

\* contents: none, one word, two words
Contents == {<<>>, <<"A">>, <<"A", "B">>, <<"A", " ", "B">>}

\* what follows the content: nothing, blanks, a second line
Tails == {<<>>, <<" ">>, <<"\n", "B">>}

QualWord(q) ==
    CASE q = "am" -> <<"shang", "wu">>
      [] q = "pm" -> <<"xia", "wu">>
      [] q = "evening" -> <<"wan", "shang">>
      [] OTHER -> <<>>

DatePhrase(x) ==
    CASE x.form = "rel" -> <<x.day, "tian">>
      [] x.form = "slash" -> x.m \o <<"/">> \o x.d
      [] x.form = "chinese" -> x.m \o <<"yue">> \o x.d \o <<x.suffix>>
      [] x.form = "full" -> x.y \o <<"-">> \o x.m \o <<"-">> \o x.d

TimePhrase(x) ==
    CASE x.tform = "hour" -> QualWord(x.q) \o x.hour \o <<x.mark>> \o x.sp2
      [] x.tform = "clock" -> x.hour \o <<":">> \o x.minute \o x.sp2
      [] OTHER -> <<>>

Render(x) == DatePhrase(x) \o x.sp1 \o TimePhrase(x) \o x.content \o x.tail

\* relative day, every qualifier and hour
RelHourMsgs ==
    {[BaseMsg EXCEPT !.day = dy, !.tform = "hour", !.q = q, !.hour = str(h),
                     !.content = c] :
        dy \in DayWords, q \in Quals, h \in 0..MaxHour, c \in {<<>>, <<"A", "B">>}}

\* relative day with an hour: spacing, hour mark, zero-padded hour, content, tail
RelShapeMsgs ==
    {[BaseMsg EXCEPT !.day = "ming", !.tform = "hour", !.q = q, !.hour = h,
                     !.sp1 = s1, !.mark = mk, !.sp2 = s2, !.content = c,
                     !.tail = tl] :
        q \in {"none", "pm"}, h \in {<<"2">>, <<"0", "9">>}, s1 \in Seps,
        mk \in {"dian", "shi"}, s2 \in Seps, c \in Contents, tl \in Tails}

RelOnlyMsgs ==
    {[BaseMsg EXCEPT !.day = dy, !.sp1 = s1, !.content = c, !.tail = tl] :
        dy \in DayWords, s1 \in Seps, c \in Contents, tl \in Tails}

DayNumbers == {0, 1, 14} \cup 28..MaxDay

\* slash date, every month and day, with and without a clock time
SlashDateMsgs ==
    {[BaseMsg EXCEPT !.form = "slash", !.m = str(mo), !.d = str(dd), !.sp1 = <<" ">>,
                     !.tform = tf, !.hour = <<"1", "0">>, !.minute = <<"0", "0">>,
                     !.sp2 = <<" ">>] :
        mo \in 0..MaxMonth, dd \in DayNumbers, tf \in {"none", "clock"}}

\* 7/14 with a clock time: hour, minute, content, tail
SlashTimeMsgs ==
    {[BaseMsg EXCEPT !.form = "slash", !.m = <<"7">>, !.d = <<"1", "4">>,
                     !.sp1 = <<" ">>, !.tform = "clock", !.hour = h, !.minute = mi,
                     !.sp2 = <<" ">>, !.content = c, !.tail = tl] :
        h \in {<<"9">>, <<"0", "9">>, <<"1", "0">>, <<"2", "3">>, <<"2", "5">>},
        mi \in {<<"0", "0">>, <<"0", "5">>, <<"5", "9">>, <<"6", "0">>},
        c \in Contents, tl \in Tails}

\* 7/14 and 07/04 without a time: separator, content, tail
SlashOnlyMsgs ==
    {[BaseMsg EXCEPT !.form = "slash", !.m = md[1], !.d = md[2], !.sp1 = s1,
                     !.content = c, !.tail = tl] :
        md \in {<< <<"7">>, <<"1", "4">> >>, << <<"0", "7">>, <<"0", "4">> >>},
        s1 \in Seps, c \in Contents, tl \in Tails}

MonthDays == {<<6, 30>>, <<12, 25>>, <<2, 29>>, <<4, 31>>, <<13, 1>>}

ChineseMsgs ==
    {[BaseMsg EXCEPT !.form = "chinese", !.m = str(md[1]), !.d = str(md[2]),
                     !.suffix = sf, !.sp1 = s1, !.tform = tq[1], !.q = tq[2],
                     !.hour = h, !.sp2 = s1, !.content = c] :
        md \in MonthDays, sf \in {"hao", "ri"}, s1 \in Seps,
        tq \in {<<"none", "none">>} \cup {<<"hour", q>> : q \in Quals},
        h \in {<<"2">>, <<"1", "2">>}, c \in {<<>>, <<"A", "B">>}}

FullMsgs ==
    {[BaseMsg EXCEPT !.form = "full", !.y = str(yr), !.m = str(md[1]),
                     !.d = str(md[2]), !.sp1 = <<" ">>, !.tform = tf,
                     !.hour = <<"0", "9">>, !.minute = <<"3", "0">>, !.sp2 = <<" ">>,
                     !.content = c] :
        yr \in {2024, 2025}, md \in MonthDays, tf \in {"none", "clock"},
        c \in {<<>>, <<"A", "B">>}}

Messages ==
    RelHourMsgs \cup RelShapeMsgs \cup RelOnlyMsgs \cup SlashDateMsgs
    \cup SlashTimeMsgs \cup SlashOnlyMsgs \cup ChineseMsgs \cup FullMsgs

-----------------------------------------------------------------------------
(* The state machine *)

Instant(y, m, d, h) ==
    [date |-> Date(y, m, d), hour |-> h, minute |-> 0, second |-> 0]

\* the instants at which the parser is exercised
ParserInstants ==
    {Instant(2024, 6, 10, 12), Instant(2024, 1, 1, 3), Instant(2024, 12, 31, 12),
     Instant(2023, 2, 27, 12), Instant(2024, 2, 28, 23), Instant(2025, 1, 1, 3)}

HostOffsets == {0, 8}

NoWindow == Window(None, None)

\* no command handled yet, nothing returned
Idle ==
    /\ op = "idle"
    /\ text = <<>>
    /\ result = NoResult
    /\ window = NoWindow
    /\ args = <<>>
    /\ ret = None
    /\ timers = <<>>
    /\ pushes = <<>>
    /\ reply = NoReply

-----------------------------------------------------------------------------
(* handle_message: which messages are schedule input, and the replies      *)

UserA == <<"U", "a", "1", "2", "3", "4">>

UserB == <<"U", "b", "1", "2", "3", "4">>

\* \d{1,2}, not captured
Dd12 == <<El(Digit, 1, 2, FALSE, FALSE)>>

\* .*
AnyRun == <<El(Dot, 0, 0, TRUE, FALSE)>>

\* re.search: the pattern matches from some position of the text
re_search(pat, t) == \E i \in 1..(Len(t) + 1) : MatchAt(pat, 1, t, i, <<>>).ok

is_schedule_input(t) ==
    \/ re_search(Dd12 \o Lit("/") \o Dd12, t)
    \/ re_search(Dd12 \o Lit("yue") \o Dd12 \o HaoRi, t)
    \/ re_search(D4 \o Lit("-") \o Dd12 \o Lit("-") \o Dd12, t)
    \/ re_search(JinTian \o AnyRun \o Dd12 \o DianShi, t)
    \/ re_search(MingTian \o AnyRun \o Dd12 \o DianShi, t)
    \/ re_search(HouTian \o AnyRun \o Dd12 \o DianShi, t)

\* isinstance(success, str) and success.startswith(('S', 'M'))
IsId(success) ==
    /\ success \notin {False, None, GuoQuRiQi}
    /\ success # <<>>
    /\ success[1] \in {"S", "M"}

\* the reply of the branch that adds
add_reply(r, success) ==
    IF ~(Truthy(r.date) /\ Truthy(r.content)) THEN Reply.add_format
    ELSE IF IsId(success) THEN Reply.added
    ELSE IF success = GuoQuRiQi THEN Reply.past_date
    ELSE Reply.add_failed

\* memory_storage = [], and a sheet with the header row only
EmptyStore == sheet = <<>> /\ memory_storage = <<>>

ParserInit ==
    /\ now \in ParserInstants
    /\ hostBehind \in HostOffsets
    /\ useSheets = FALSE
    /\ EmptyStore
    /\ msg \in Messages
    /\ Idle

\* parse_natural_input(text) on the message as sent
ParseNatural ==
    /\ op = "idle"
    /\ op' = "parse_natural_input"
    /\ text' = Render(msg)
    /\ result' = parse_natural_input(Render(msg))
    /\ UNCHANGED <<now, hostBehind, msg, window>>
    /\ UNCHANGED <<storeVars, jobVars, reply>>

\* handle_message: text = "新增行程 " + text; parse_schedule_input(text)
ParseSchedule ==
    /\ op = "idle"
    /\ op' = "parse_schedule_input"
    /\ text' = XinZengXingCheng \o <<" ">> \o Render(msg)
    /\ result' = parse_schedule_input(XinZengXingCheng \o <<" ">> \o Render(msg))
    /\ UNCHANGED <<now, hostBehind, msg, window>>
    /\ UNCHANGED <<storeVars, jobVars, reply>>

\* handle_message, the branch that adds: the message as sent by UserA, who
\* writes no command word in front of it
AddFromMessage ==
    /\ op = "idle"
    /\ \E t \in {strip(Render(msg))} :
         IF ~(StartsWith(t, XinZengXingCheng) \/ is_schedule_input(t))
         THEN /\ op' = "unknown"
              /\ text' = t
              /\ reply' = Reply.unknown
              /\ UNCHANGED <<result, ret, sheet, memory_storage, args>>
         ELSE \E r \in {parse_schedule_input(XinZengXingCheng \o <<" ">> \o t)} :
                \E o \in {IF Truthy(r.date) /\ Truthy(r.content)
                          THEN add_schedule(r.date, r.time, r.content, UserA, FALSE)
                          ELSE Outcome(None, sheet, memory_storage)} :
                   /\ op' = "add"
                   /\ text' = XinZengXingCheng \o <<" ">> \o t
                   /\ result' = r
                   /\ args' = [user_id |-> UserA]
                   /\ ret' = o.ret
                   /\ sheet' = o.sheet
                   /\ memory_storage' = o.memory_storage
                   /\ reply' = add_reply(r, o.ret)
    /\ UNCHANGED <<now, hostBehind, msg, window, useSheets, jobVars>>

ParserNext == ParseNatural \/ ParseSchedule \/ AddFromMessage

ParserSpec == ParserInit /\ [][ParserNext]_vars

\* the reference dates of the range queries: RangeDays days from 2023-01-01,
\* early in the morning on the Taipei clock
RangeDays == 750

RangeInstants ==
    {[date |-> AddDays(Date(2023, 1, 1), k), hour |-> 3, minute |-> 0, second |-> 0] : k \in 0..RangeDays}

\* a record add_schedule put into memory_storage on 2023-01-01 at 00:00:ss
RangeEntry(ss, date, time, content, user_id, status) ==
    [ID |-> <<"M">> \o str(20230101) \o Fmt02d(0) \o Fmt02d(0) \o ss \o Last4(user_id),
     date |-> strftime_ymd(date), time |-> time, content |-> content,
     reminder |-> <<>>, created |-> str(2023) \o <<"-">> \o Fmt02d(1) \o <<"-">>
                                       \o Fmt02d(1) \o <<" ">> \o Fmt02d(0) \o <<":">>
                                       \o Fmt02d(0) \o <<":">> \o ss,
     user |-> user_id, status |-> status]

\* what memory_storage holds while the range queries are asked: entries of
\* two users on the Sunday, Monday, next Sunday and Monday after of two
\* weeks of January 2024, one of them deleted
RangeStore ==
    << RangeEntry(<<"0", "1">>, Date(2024, 1, 15), <<>>, <<"A">>, UserA, YouXiao),
       RangeEntry(<<"0", "2">>, Date(2024, 1, 14), <<"0", "9", ":", "0", "0">>,
                  <<"A">>, UserA, YouXiao),
       RangeEntry(<<"0", "3">>, Date(2024, 1, 8), <<>>, <<"B">>, UserB, YouXiao),
       RangeEntry(<<"0", "4">>, Date(2024, 1, 10), <<>>, <<"B">>, UserA, YiShanChu),
       RangeEntry(<<"0", "5">>, Date(2024, 1, 8), <<>>, <<"B">>, UserA, YouXiao),
       RangeEntry(<<"0", "6">>, Date(2024, 1, 7), <<>>, <<"A">>, UserB, YouXiao) >>

RangeInit ==
    /\ now \in RangeInstants
    /\ hostBehind \in HostOffsets
    /\ useSheets = FALSE
    /\ sheet = <<>>
    /\ memory_storage = RangeStore
    /\ msg = BaseMsg
    /\ Idle

\* the day goes on: from the early morning to noon of the same date
ClockTick ==
    /\ now.hour = 3
    /\ now' = [now EXCEPT !.hour = 12]
    /\ UNCHANGED <<hostBehind, op, msg, text, result, window>>
    /\ UNCHANGED <<storeVars, jobVars, reply>>

\* the range queries: the window each hands to get_schedules_by_date_range

get_today_schedules ==
    /\ op' = "today"
    /\ window' = today_window(TodayTZ)
    /\ UNCHANGED <<now, hostBehind, msg, text, result>>
    /\ UNCHANGED <<storeVars, jobVars, reply>>

get_tomorrow_schedules ==
    /\ op' = "tomorrow"
    /\ window' = tomorrow_window(TodayTZ)
    /\ UNCHANGED <<now, hostBehind, msg, text, result>>
    /\ UNCHANGED <<storeVars, jobVars, reply>>

get_this_week_schedules ==
    /\ op' = "this_week"
    /\ window' = this_week_window(TodayTZ)
    /\ UNCHANGED <<now, hostBehind, msg, text, result>>
    /\ UNCHANGED <<storeVars, jobVars, reply>>

get_next_week_schedules ==
    /\ op' = "next_week"
    /\ window' = next_week_window(TodayTZ)
    /\ UNCHANGED <<now, hostBehind, msg, text, result>>
    /\ UNCHANGED <<storeVars, jobVars, reply>>

get_this_month_schedules ==
    /\ op' = "this_month"
    /\ window' = this_month_window(TodayTZ)
    /\ UNCHANGED <<now, hostBehind, msg, text, result>>
    /\ UNCHANGED <<storeVars, jobVars, reply>>

get_next_month_schedules ==
    /\ op' = "next_month"
    /\ window' = next_month_window(TodayTZ)
    /\ UNCHANGED <<now, hostBehind, msg, text, result>>
    /\ UNCHANGED <<storeVars, jobVars, reply>>

get_next_year_schedules ==
    /\ op' = "next_year"
    /\ window' = next_year_window(TodayTZ)
    /\ UNCHANGED <<now, hostBehind, msg, text, result>>
    /\ UNCHANGED <<storeVars, jobVars, reply>>

\* the command handle_message answers with get_recent_schedules(user_id, 7)
get_recent_schedules ==
    /\ op' = "recent"
    /\ window' = recent_window(TodayTZ, 7)
    /\ UNCHANGED <<now, hostBehind, msg, text, result>>
    /\ UNCHANGED <<storeVars, jobVars, reply>>

\* get_two_weeks_later_schedules(): the window and the records collected
get_two_weeks_later_schedules ==
    /\ op' = "two_weeks_later"
    /\ window' = two_weeks_later_window(TodayTZ)
    /\ ret' = schedules_by_user(TodayTZ)
    /\ UNCHANGED <<now, hostBehind, msg, text, result>>
    /\ UNCHANGED <<useSheets, sheet, memory_storage, args, jobVars, reply>>

RangeNext ==
    \/ ClockTick
    \/ get_today_schedules
    \/ get_tomorrow_schedules
    \/ get_this_week_schedules
    \/ get_next_week_schedules
    \/ get_this_month_schedules
    \/ get_next_month_schedules
    \/ get_next_year_schedules
    \/ get_recent_schedules
    \/ get_two_weeks_later_schedules

RangeSpec == RangeInit /\ [][RangeNext]_vars

-----------------------------------------------------------------------------
(* The store commands of handle_message and the scheduled jobs *)

\* the most records the two stores hold together
MaxEntries == 2

\* the seconds the clock runs on from the first instant
MaxSecond == 1

\* a Friday morning, when friday_reminder runs
StoreInstants ==
    {[date |-> Date(2024, 6, 14), hour |-> 10, minute |-> 0, second |-> 0]}

\* two users whose ids end in the same four characters
Users == {UserA, UserB}

\* "6/<d> [<h>:00 ]<content>"
StoreMsg(d, tf, h, c) ==
    [BaseMsg EXCEPT !.form = "slash", !.m = <<"6">>, !.d = d, !.sp1 = <<" ">>,
                    !.tform = tf, !.hour = h, !.minute = <<"0", "0">>,
                    !.sp2 = <<" ">>, !.content = c]

\* today all day, a day of the week two weeks on at 9:00 and all day; then
\* yesterday, an hour that is none, and no content
StoreMessages ==
    {StoreMsg(<<"1", "4">>, "none", <<>>, <<"A">>),
     StoreMsg(<<"2", "4">>, "clock", <<"9">>, <<"A">>),
     StoreMsg(<<"2", "4">>, "none", <<>>, <<"B">>),
     StoreMsg(<<"1", "3">>, "none", <<>>, <<"A">>),
     StoreMsg(<<"2", "4">>, "clock", <<"2", "5">>, <<"A">>),
     StoreMsg(<<"2", "4">>, "none", <<>>, <<>>)}

\* the commands that ask for a period
StorePeriods ==
    {"today", "tomorrow", "this_week", "next_week", "this_month", "next_month",
     "next_year", "recent"}

PeriodWindow(period, today) ==
    CASE period = "today" -> today_window(today)
      [] period = "tomorrow" -> tomorrow_window(today)
      [] period = "this_week" -> this_week_window(today)
      [] period = "next_week" -> next_week_window(today)
      [] period = "this_month" -> this_month_window(today)
      [] period = "next_month" -> next_month_window(today)
      [] period = "next_year" -> next_year_window(today)
      [] period = "recent" -> recent_window(today, 7)

\* the ids the stores hold, and one they do not
Ids ==
    {sheet[i].ID : i \in 1..Len(sheet)}
    \cup {memory_storage[i].ID : i \in 1..Len(memory_storage)}
    \cup {<<"S", "0">>}

StoreInit ==
    /\ now \in StoreInstants
    /\ hostBehind = 0
    /\ useSheets \in BOOLEAN
    /\ EmptyStore
    /\ msg = BaseMsg
    /\ Idle

\* handle_message, a message that starts with the add command
AddSchedule ==
    /\ Len(sheet) + Len(memory_storage) < MaxEntries
    /\ \E m \in StoreMessages :
         \E r \in {parse_schedule_input(XinZengXingCheng \o <<" ">> \o Render(m))} :
           \E user_id \in Users, write_fails \in BOOLEAN :
             \E o \in {IF Truthy(r.date) /\ Truthy(r.content)
                       THEN add_schedule(r.date, r.time, r.content, user_id,
                                         write_fails)
                       ELSE Outcome(None, sheet, memory_storage)} :
                /\ op' = "add"
                /\ msg' = m
                /\ text' = XinZengXingCheng \o <<" ">> \o Render(m)
                /\ result' = r
                /\ args' = [user_id |-> user_id]
                /\ ret' = o.ret
                /\ sheet' = o.sheet
                /\ memory_storage' = o.memory_storage
                /\ window' = NoWindow
                /\ reply' = add_reply(r, o.ret)
                /\ pushes' = <<>>
                /\ UNCHANGED <<now, hostBehind, useSheets, timers>>

\* handle_message, one of the period commands
QuerySchedules ==
    \E user_id \in Users, period \in StorePeriods :
      \E w \in {PeriodWindow(period, TodayTZ)} :
        \E schedules \in {get_schedules_by_date_range(w.start, w.end, user_id)} :
            /\ op' = "query"
            /\ args' = [user_id |-> user_id, period |-> period]
            /\ window' = w
            /\ ret' = schedules
            /\ reply' = IF schedules = <<>> THEN Reply.no_schedules ELSE Reply.list
            /\ pushes' = <<>>
            /\ msg' = BaseMsg /\ text' = <<>> /\ result' = NoResult
            /\ UNCHANGED <<now, hostBehind, useSheets, sheet, memory_storage, timers>>

\* handle_message, the delete-by-id command
DeleteById ==
    \E user_id \in Users, schedule_id \in Ids :
        \E o \in {delete_schedule_by_id(schedule_id, user_id)} :
            /\ op' = "delete_by_id"
            /\ args' = [user_id |-> user_id, schedule_id |-> schedule_id]
            /\ ret' = o.ret
            /\ sheet' = o.sheet
            /\ memory_storage' = o.memory_storage
            /\ reply' = IF o.ret = NoRecord THEN Reply.id_not_deleted ELSE Reply.id_deleted
            /\ pushes' = <<>>
            /\ msg' = BaseMsg /\ text' = <<>> /\ result' = NoResult /\ window' = NoWindow
            /\ UNCHANGED <<now, hostBehind, useSheets, timers>>

\* handle_message, 查詢ID <id>
QueryById ==
    \E user_id \in Users, schedule_id \in Ids :
      \E schedule \in {get_schedule_by_id(schedule_id, user_id)} :
        /\ op' = "query_by_id"
        /\ args' = [user_id |-> user_id, schedule_id |-> schedule_id]
        /\ ret' = schedule
        /\ reply' = IF schedule = NoRecord THEN Reply.id_not_found ELSE Reply.id_found
        /\ pushes' = <<>>
        /\ msg' = BaseMsg /\ text' = <<>> /\ result' = NoResult /\ window' = NoWindow
        /\ UNCHANGED <<now, hostBehind, useSheets, sheet, memory_storage, timers>>

\* 刪除行程 <date> <keyword>
DeleteText(date_part, keyword) ==
    ShanChuXingCheng \o <<" ">> \o date_part \o <<" ">> \o keyword

\* the delete messages: the date as M/D, M月D號 and as stored, a date of
\* digits only, a date that is no date, a keyword alone, the command alone
DeleteTexts ==
    { DeleteText(<<"6", "/", "2", "4">>, <<"A">>),
      DeleteText(<<"6", "yue", "2", "4", "hao">>, <<"A">>),
      DeleteText(<<"2", "0", "2", "4", "-", "0", "6", "-", "2", "4">>, <<"B">>),
      DeleteText(<<"2", "0", "2", "4", "0", "6", "2", "4">>, <<"A">>),
      DeleteText(<<"6", "/">>, <<"A">>),
      ShanChuXingCheng \o <<" ">> \o <<"A">>,
      ShanChuXingCheng }

\* is_schedule_input of each delete message
TakenAsScheduleInput == [t \in DeleteTexts |-> is_schedule_input(t)]

\* handle_message on a message that starts with 刪除行程.  The branch that
\* adds stands before the branch that deletes and takes every message in
\* which is_schedule_input finds a date; the branch that deletes gets the rest.
DeleteByKeyword ==
    \E user_id \in Users, t \in DeleteTexts :
      IF TakenAsScheduleInput[t]
      THEN \E r \in {parse_schedule_input(XinZengXingCheng \o <<" ">> \o t)} :
             \E o \in {IF Truthy(r.date) /\ Truthy(r.content)
                       THEN add_schedule(r.date, r.time, r.content, user_id, FALSE)
                       ELSE Outcome(None, sheet, memory_storage)} :
                /\ op' = "delete"
                /\ text' = XinZengXingCheng \o <<" ">> \o t
                /\ args' = [user_id |-> user_id]
                /\ ret' = o.ret
                /\ sheet' = o.sheet
                /\ memory_storage' = o.memory_storage
                /\ reply' = add_reply(r, o.ret)
                /\ pushes' = <<>>
                /\ msg' = BaseMsg /\ result' = r /\ window' = NoWindow
                /\ UNCHANGED <<now, hostBehind, useSheets, timers>>
      ELSE
      \E content \in {strip(Remove(t, ShanChuXingCheng))} :
        \E parts \in {split_once(content, " ")} :
          \E date_str \in {IF Len(parts) >= 2 THEN delete_date(parts[1]) ELSE Raised} :
            \E o \in {IF content # <<>> /\ Len(parts) >= 2 /\ date_str # Raised
                      THEN delete_schedule(user_id, date_str, parts[2])
                      ELSE Outcome(FALSE, sheet, memory_storage)} :
            /\ op' = "delete"
            /\ text' = t
            /\ args' = [user_id |-> user_id, date_str |-> date_str,
                        keyword |-> IF Len(parts) >= 2 THEN parts[2] ELSE <<>>]
            /\ ret' = o.ret
            /\ sheet' = o.sheet
            /\ memory_storage' = o.memory_storage
            /\ reply' = IF content = <<>> THEN Reply.delete_empty
                        ELSE IF Len(parts) < 2 THEN Reply.delete_format
                        ELSE IF date_str = Raised THEN Reply.date_format
                        ELSE IF o.ret THEN Reply.keyword_deleted
                        ELSE Reply.keyword_not_found
            /\ pushes' = <<>>
            /\ msg' = BaseMsg /\ result' = NoResult /\ window' = NoWindow
            /\ UNCHANGED <<now, hostBehind, useSheets, timers>>

\* friday_reminder: the digest of the week two weeks on
FridayReminder ==
    \E by_user \in {schedules_by_user(TodayTZ)} :
      \E order \in {items_order(TodayTZ)} :
        \E failed \in SUBSET Users :
            /\ op' = "friday_reminder"
            /\ args' = <<>>
            /\ window' = two_weeks_later_window(TodayTZ)
            /\ ret' = by_user
            /\ pushes' = [i \in 1..Len(order) |->
                            [to |-> order[i], schedules |-> by_user[order[i]],
                             ok |-> order[i] \notin failed]]
            /\ reply' = NoReply
            /\ msg' = BaseMsg /\ text' = <<>> /\ result' = NoResult
            /\ UNCHANGED <<now, hostBehind, useSheets, sheet, memory_storage, timers>>

\* daily_cleanup: writes a log line
DailyCleanup ==
    /\ op' = "daily_cleanup"
    /\ args' = <<>>
    /\ ret' = None
    /\ reply' = NoReply
    /\ pushes' = <<>>
    /\ msg' = BaseMsg /\ text' = <<>> /\ result' = NoResult /\ window' = NoWindow
    /\ UNCHANGED <<now, hostBehind, useSheets, sheet, memory_storage, timers>>

\* the clock goes on by a second
SecondTick ==
    /\ now.second < MaxSecond
    /\ now' = [now EXCEPT !.second = @ + 1]
    /\ UNCHANGED <<hostBehind, op, msg, text, result, window>>
    /\ UNCHANGED <<storeVars, jobVars, reply>>

StoreNext ==
    \/ AddSchedule
    \/ QuerySchedules
    \/ DeleteById
    \/ QueryById
    \/ DeleteByKeyword
    \/ FridayReminder
    \/ DailyCleanup
    \/ SecondTick

StoreSpec == StoreInit /\ [][StoreNext]_vars

-----------------------------------------------------------------------------
(* Reading a result back: what a date string and a time string denote,     *)
(* and the calendar stated without ordinals                                *)

Parsing == op \in {"parse_natural_input", "parse_schedule_input"}

AllDigits(s) == \A i \in 1..Len(s) : s[i] \in Digit

\* s is YYYY-MM-DD for the year y, month mo, day dd
IsDateStr(s, y, mo, dd) ==
    /\ Len(s) = 10
    /\ s[5] = "-" /\ s[8] = "-"
    /\ AllDigits(SubSeq(s, 1, 4)) /\ int(SubSeq(s, 1, 4)) = y
    /\ AllDigits(SubSeq(s, 6, 7)) /\ int(SubSeq(s, 6, 7)) = mo
    /\ AllDigits(SubSeq(s, 9, 10)) /\ int(SubSeq(s, 9, 10)) = dd

\* s is HH:MM for the hour h, minute mi
IsTimeStr(s, h, mi) ==
    /\ Len(s) = 5
    /\ s[3] = ":"
    /\ AllDigits(SubSeq(s, 1, 2)) /\ int(SubSeq(s, 1, 2)) = h
    /\ AllDigits(SubSeq(s, 4, 5)) /\ int(SubSeq(s, 4, 5)) = mi

IsDateOf(s, dt) == IsDateStr(s, dt.year, dt.month, dt.day)

\* a result that carries a time
Timed(r) == r.time # None /\ r.time # <<>>

\* the last day of month mo of year y, by the calendar
LastDay(y, mo) ==
    IF mo = 2 THEN (IF y % 400 = 0 \/ (y % 4 = 0 /\ y % 100 # 0) THEN 29 ELSE 28)
    ELSE IF mo \in {4, 6, 9, 11} THEN 30
    ELSE 31

\* y-mo-dd is a date of the calendar
OnCalendar(y, mo, dd) == mo \in 1..12 /\ dd \in 1..LastDay(y, mo)

\* the day after dt, by the calendar
NextDay(dt) ==
    IF dt.day < LastDay(dt.year, dt.month) THEN Date(dt.year, dt.month, dt.day + 1)
    ELSE IF dt.month < 12 THEN Date(dt.year, dt.month + 1, 1)
    ELSE Date(dt.year + 1, 1, 1)

\* the day a relative-day word names
RelativeDay(day) ==
    CASE day = "jin" -> TodayTZ
      [] day = "ming" -> NextDay(TodayTZ)
      [] day = "hou" -> NextDay(NextDay(TodayTZ))

\* the message has a content, and nothing but blanks after it
HasContent(x) == x.content # <<>> /\ x.tail \in {<<>>, <<" ">>}

\* the message ends, but for blanks, with its date/time phrase
PhraseOnly(x) == x.content = <<>> /\ x.tail \in {<<>>, <<" ">>}

RelHour(q) == Parsing /\ msg.form = "rel" /\ msg.tform = "hour" /\ msg.q = q /\ HasContent(msg)

-----------------------------------------------------------------------------
(* Claims *)

\* C1: 'M月D[號|日] <content>' with a valid month/day and no hour parses to
\* the all-day entry of the current year: date <current_year>-MM-DD, empty
\* time, the trimmed content.
C1_ChineseDateOnlyAllDay ==
    (/\ Parsing /\ msg.form = "chinese" /\ msg.tform = "none" /\ HasContent(msg)
     /\ OnCalendar(HostYear, int(msg.m), int(msg.d)))
    => /\ IsDateStr(result.date, HostYear, int(msg.m), int(msg.d))
       /\ result.time = <<>>
       /\ result.content = msg.content

\* C2: 'YYYY-M-D HH:MM <content>' and 'YYYY-M-D <content>' with a valid date
\* parse to that date zero-padded, the given time or an empty time, and the
\* trimmed content; '新增行程 2024-12-25 09:30 會議' is parsed, not refused.
C2_FullNumericDateParsed ==
    (/\ Parsing /\ msg.form = "full" /\ HasContent(msg)
     /\ OnCalendar(int(msg.y), int(msg.m), int(msg.d)))
    => /\ IsDateStr(result.date, int(msg.y), int(msg.m), int(msg.d))
       /\ IF msg.tform = "clock"
          THEN IsTimeStr(result.time, int(msg.hour), int(msg.minute))
          ELSE result.time = <<>>
       /\ result.content = msg.content

\* C3: a relative day with a bare hour H and a content: for H <= 24 the
\* result is the day today + 0/1/2, the time H zero-padded with minutes 00,
\* and the trimmed content; for H > 24 the result is never a timed entry.
C3_BareHour ==
    RelHour("none") =>
        IF int(msg.hour) <= 24
        THEN /\ IsDateOf(result.date, RelativeDay(msg.day))
             /\ IsTimeStr(result.time, int(msg.hour), 0)
             /\ result.content = msg.content
        ELSE ~Timed(result)

C3_Witness ==
    /\ RelHour("none") /\ msg.day = "hou" /\ int(msg.hour) = 24
    /\ now.date = Date(2023, 2, 27)
    /\ result.date = <<"2", "0", "2", "3", "-", "0", "3", "-", "0", "1">>
    /\ result.time = <<"2", "4", ":", "0", "0">>

\* C4: a relative day with 下午 or 晚上 and hour H: the time is (H+12):00
\* for H < 12 and H:00 for 12 <= H <= 24; above 24 there is no timed entry.
\* '明天下午2點聚餐' on 2024-06-10 gives (2024-06-11, 14:00, '聚餐').
C4_Example ==
    [BaseMsg EXCEPT !.day = "ming", !.tform = "hour", !.q = "pm", !.hour = <<"2">>]

C4_PmHour ==
    /\ ((RelHour("pm") \/ RelHour("evening")) =>
          LET H == int(msg.hour)
          IN  IF H <= 24
              THEN /\ IsDateOf(result.date, RelativeDay(msg.day))
                   /\ IsTimeStr(result.time, IF H < 12 THEN H + 12 ELSE H, 0)
                   /\ result.content = msg.content
              ELSE ~Timed(result))
    /\ ((Parsing /\ msg = C4_Example /\ now.date = Date(2024, 6, 10)) =>
          result = Parsed(<<"2", "0", "2", "4", "-", "0", "6", "-", "1", "1">>,
                          <<"1", "4", ":", "0", "0">>, <<"A", "B">>))

C4_Witness ==
    /\ Parsing /\ msg = C4_Example /\ now.date = Date(2024, 6, 10)
    /\ result.time = <<"1", "4", ":", "0", "0">>

\* C5: a relative day with 上午 and hour H: the time is 00:00 for H = 12 and
\* H:00 for 0 <= H <= 11; for H > 12 the am rule yields no timed entry.
C5_AmHour ==
    RelHour("am") =>
        LET H == int(msg.hour)
        IN  IF H <= 12
            THEN /\ IsDateOf(result.date, RelativeDay(msg.day))
                 /\ IsTimeStr(result.time, IF H = 12 THEN 0 ELSE H, 0)
                 /\ result.content = msg.content
            ELSE ~Timed(result)

C5_Witness ==
    /\ RelHour("am") /\ int(msg.hour) = 12
    /\ result.time = <<"0", "0", ":", "0", "0">>

\* C6: 'M/D HH:MM <content>' with a valid month/day parses to the date
\* <current_year>-MM-DD, the time HH:MM as written and the trimmed content,
\* whatever the reference date, also when M/D has passed this year.
C6_SlashDateTime ==
    (/\ Parsing /\ msg.form = "slash" /\ msg.tform = "clock" /\ HasContent(msg)
     /\ OnCalendar(HostYear, int(msg.m), int(msg.d)))
    => /\ IsDateStr(result.date, HostYear, int(msg.m), int(msg.d))
       /\ IsTimeStr(result.time, int(msg.hour), int(msg.minute))
       /\ (Len(msg.hour) = 2 => result.time = msg.hour \o <<":">> \o msg.minute)
       /\ result.content = msg.content

C6_Witness ==
    /\ Parsing /\ msg.form = "slash" /\ msg.m = <<"7">> /\ msg.d = <<"1", "4">>
    /\ msg.content = <<"A", "B">>
    /\ now.date = Date(2024, 12, 31)
    /\ result = Parsed(<<"2", "0", "2", "4", "-", "0", "7", "-", "1", "4">>,
                       <<"1", "0", ":", "0", "0">>, <<"A", "B">>)

\* what follows the relative-day word of the message, trimmed
AfterDayWord(x) == strip(x.sp1 \o TimePhrase(x) \o x.content \o x.tail)

\* the hour of the message fails the validation of its rule
HourRejected(x) ==
    CASE x.q = "am" -> int(x.hour) > 12
      [] OTHER -> int(x.hour) > 24

\* C7: a rule whose shape matches but whose validation fails is skipped and
\* the later rules are tried: for '今天25點開會' the result is never a timed
\* entry; it is the all-day entry of that day made by the relative-day rule
\* without hour, with content '25點開會'.
C7_RejectedHourFallsThrough ==
    (/\ Parsing /\ msg.form = "rel" /\ msg.tform = "hour" /\ HasContent(msg)
     /\ HourRejected(msg))
    => /\ ~Timed(result)
       /\ IsDateOf(result.date, RelativeDay(msg.day))
       /\ result.content = AfterDayWord(msg)

C7_Witness ==
    /\ Parsing /\ msg.form = "rel" /\ msg.day = "jin" /\ msg.q = "none"
    /\ msg.hour = <<"2", "5">> /\ msg.content = <<"A", "B">>
    /\ result.time = <<>>
    /\ result.content = <<"2", "5", "dian", "A", "B">>

\* C8: a slash date whose month/day is no calendar date of the current year
\* is never clamped to another date: 'M/D HH:MM content' and 'M/D content'
\* both give (None, None, None).
C8_InvalidSlashDateNoMatch ==
    (/\ Parsing /\ msg.form = "slash"
     /\ ~OnCalendar(HostYear, int(msg.m), int(msg.d)))
    => result = NoResult

C8_Witness ==
    /\ Parsing /\ msg.form = "slash" /\ msg.tform = "clock"
    /\ msg.m = <<"2">> /\ msg.d = <<"2", "9">>
    /\ now.date = Date(2025, 1, 1) /\ HostYear = 2025
    /\ result = NoResult

\* the first half of C9: a result with a date has a non-empty content
\* without leading or trailing blanks
ContentNonEmptyTrimmed ==
    (Parsing /\ result.date # None)
    => /\ result.content # None
       /\ result.content # <<>>
       /\ result.content[1] \notin Space
       /\ result.content[Len(result.content)] \notin Space

\* C9: a result with a date has a non-empty content without leading or
\* trailing blanks, and a message that is only a date/time phrase with
\* nothing after it is no-match for parse_schedule_input.
C9_PhraseOnlyIsNoMatch ==
    /\ ContentNonEmptyTrimmed
    /\ ((op = "parse_schedule_input" /\ PhraseOnly(msg)) => result = NoResult)

\* C10: the window of get_this_week_schedules starts on the Monday on or
\* before the reference date, ends six days later, a Sunday, and contains
\* the reference date.
C10_ThisWeekWindow ==
    op = "this_week" =>
        LET s == toordinal(window.start)
            e == toordinal(window.end)
            t == toordinal(TodayTZ)
        IN  /\ weekday(window.start) = 0
            /\ (s - toordinal(Date(2024, 1, 1))) % 7 = 0
            /\ e = s + 6
            /\ weekday(window.end) = 6
            /\ s <= t /\ t <= e

C10_Witness ==
    /\ op = "this_week"
    /\ now.date = Date(2025, 1, 1)
    /\ window = Window(Date(2024, 12, 30), Date(2025, 1, 5))

-----------------------------------------------------------------------------
(* Range windows *)

\* dt is a date of the calendar, not the ValueError of a failed replace
IsDate(dt) == dt.year >= 1 /\ OnCalendar(dt.year, dt.month, dt.day)

\* a is on or before b, by year, month and day
OnOrBefore(a, b) ==
    \/ a.year < b.year
    \/ a.year = b.year /\ a.month < b.month
    \/ a.year = b.year /\ a.month = b.month /\ a.day <= b.day

\* the month after month mo of year y
MonthAfter(y, mo) == IF mo = 12 THEN <<y + 1, 1>> ELSE <<y, mo + 1>>

\* C11: the window of get_next_week_schedules starts seven days after the
\* start of this week (the day after this week ends), on a Monday, ends six
\* days after its start, and never contains the reference date.
C11_NextWeekWindow ==
    op = "next_week" =>
        LET this == this_week_window(TodayTZ)
            s    == toordinal(window.start)
            e    == toordinal(window.end)
            t    == toordinal(TodayTZ)
        IN  /\ s = toordinal(this.start) + 7
            /\ window.start = NextDay(this.end)
            /\ weekday(window.start) = 0
            /\ e = s + 6
            /\ t < s
            /\ s - t \in 1..7

\* asked on a Monday, the window is the week of the Monday after
C11_Witness ==
    /\ op = "next_week"
    /\ now.date = Date(2024, 1, 1)
    /\ window = Window(Date(2024, 1, 8), Date(2024, 1, 14))

\* C12: the window of get_next_month_schedules starts on day 1 of the month
\* after the reference date's month (January of the next year when the
\* reference date is in December) and ends on the last day of that month;
\* computing it never fails.
C12_NextMonthWindow ==
    op = "next_month" =>
        LET ym == MonthAfter(TodayTZ.year, TodayTZ.month)
        IN  /\ IsDate(window.start) /\ IsDate(window.end)
            /\ window.start = Date(ym[1], ym[2], 1)
            /\ window.end = Date(ym[1], ym[2], LastDay(ym[1], ym[2]))
            /\ (TodayTZ = Date(2024, 1, 31)
                    => window = Window(Date(2024, 2, 1), Date(2024, 2, 29)))
            /\ (TodayTZ = Date(2023, 1, 31)
                    => window = Window(Date(2023, 2, 1), Date(2023, 2, 28)))
            /\ (TodayTZ.month = 12
                    => window = Window(Date(TodayTZ.year + 1, 1, 1),
                                       Date(TodayTZ.year + 1, 1, 31)))

\* asked on 31 January of a year that is not a leap year
C12_Witness ==
    /\ op = "next_month"
    /\ now.date = Date(2023, 1, 31)
    /\ window = Window(Date(2023, 2, 1), Date(2023, 2, 28))

\* C13: the window of get_this_month_schedules runs from day 1 of the
\* reference date's month to the last day of that month, which is the exact
\* number of days of the month, and contains the reference date.
C13_ThisMonthWindow ==
    op = "this_month" =>
        LET y    == TodayTZ.year
            mo   == TodayTZ.month
            last == LastDay(y, mo)
        IN  /\ window = Window(Date(y, mo, 1), Date(y, mo, last))
            /\ last \in 28..31
            /\ NextDay(window.end).day = 1
            /\ OnOrBefore(window.start, TodayTZ)
            /\ OnOrBefore(TodayTZ, window.end)

\* asked on the leap day
C13_Witness ==
    /\ op = "this_month"
    /\ now.date = Date(2024, 2, 29)
    /\ window = Window(Date(2024, 2, 1), Date(2024, 2, 29))

\* C15: the window of the recent-schedules command (get_recent_schedules
\* with days = 7) is the seven calendar days from the reference date D to
\* D + 6, across month and year ends.
C15_RecentSevenDays ==
    op = "recent" =>
        /\ window.start = TodayTZ
        /\ window.end = NextDay(NextDay(NextDay(NextDay(NextDay(NextDay(TodayTZ))))))
        /\ toordinal(window.end) - toordinal(window.start) + 1 = 7

\* asked on 28 December, the seven days end on 3 January
C15_Witness ==
    /\ op = "recent"
    /\ now.date = Date(2023, 12, 28)
    /\ window = Window(Date(2023, 12, 28), Date(2024, 1, 3))

\* the period queries
Periods ==
    {"today", "tomorrow", "this_week", "next_week", "this_month", "next_month",
     "next_year", "recent", "two_weeks_later"}

\* the window of a period query is two dates of the calendar, the start on
\* or before the end
NonEmptyWindow ==
    op \in Periods =>
        /\ IsDate(window.start) /\ IsDate(window.end)
        /\ OnOrBefore(window.start, window.end)

\* the same query asked again on the same reference date, at whatever hour,
\* computes the same window
SameWindowAgain ==
    (op' = op /\ now'.date = now.date /\ op \in Periods) => window' = window

\* C16: for every period query and every reference date the window is
\* non-empty, start on or before end, and asking the same query again for the
\* same reference date gives the identical window.
C16_WindowsNonEmptyAndRepeatable == []NonEmptyWindow /\ [][SameWindowAgain]_vars

\* the next-year query asked again later on New Year's Eve
C16_Witness ==
    /\ op = "next_year"
    /\ now = Instant(2024, 12, 31, 12)
    /\ window = Window(Date(2025, 1, 1), Date(2025, 12, 31))

-----------------------------------------------------------------------------
(* The store *)

\* a date as the number yyyymmdd: of a date, and of the text 'yyyy-mm-dd'
DateNum(dt) == dt.year * 10000 + dt.month * 100 + dt.day

DateNumOf(s) ==
    int(SubSeq(s, 1, 4)) * 10000 + int(SubSeq(s, 6, 7)) * 100 + int(SubSeq(s, 9, 10))

\* a time as the number hhmm, an entry of the whole day before every time
TimeNumOf(s) ==
    IF s = <<>> THEN 0 - 1 ELSE int(SubSeq(s, 1, 2)) * 100 + int(SubSeq(s, 4, 5))

\* the entry is dated inside the window w
DatedInside(record, w) ==
    /\ DateNum(w.start) <= DateNumOf(record.date)
    /\ DateNumOf(record.date) <= DateNum(w.end)

\* the entries the program holds, in the sheet and in memory_storage
Entries == sheet \o memory_storage

\* C14: the window of get_two_weeks_later_schedules is the week, Monday to
\* Sunday, that contains the reference date + 14; it starts 14 days after
\* the start of this week; and only entries dated inside it are collected.
C14_TwoWeeksLaterWeek ==
    op = "two_weeks_later" =>
        LET s == toordinal(window.start)
            e == toordinal(window.end)
            t == toordinal(TodayTZ)
        IN  /\ weekday(window.start) = 0
            /\ e = s + 6
            /\ s <= t + 14 /\ t + 14 <= e
            /\ s = toordinal(this_week_window(TodayTZ).start) + 14
            /\ \A u \in DOMAIN ret : \A i \in 1..Len(ret[u]) :
                 /\ DatedInside(ret[u][i], window)
                 /\ \E k \in 1..Len(Entries) : Entries[k] = ret[u][i]

\* asked on Wednesday 2023-12-27: the week of 2024-01-08, with two entries
\* of one user and one of the other
C14_Witness ==
    /\ op = "two_weeks_later"
    /\ now.date = Date(2023, 12, 27)
    /\ window = Window(Date(2024, 1, 8), Date(2024, 1, 14))
    /\ DOMAIN ret = {UserA, UserB}
    /\ Len(ret[UserA]) = 2
    /\ Len(ret[UserB]) = 1

\* the entry is one get_schedules_by_date_range(w.start, w.end, owner) is to
\* return: of the owner, not deleted, dated inside the window
Wanted(record, owner, w) ==
    /\ record.user = owner
    /\ record.status # YiShanChu
    /\ DatedInside(record, w)

\* a comes no later than b by date, then time, the whole day first
InOrder(a, b) ==
    \/ DateNumOf(a.date) < DateNumOf(b.date)
    \/ /\ DateNumOf(a.date) = DateNumOf(b.date)
       /\ TimeNumOf(a.time) <= TimeNumOf(b.time)

\* the records returned are stored entries that are wanted, and are in order
QueryReturnsOnlyWanted ==
    op = "query" =>
        /\ \A i \in 1..Len(ret) :
             /\ Wanted(ret[i], args.user_id, window)
             /\ \E k \in 1..Len(Entries) : Entries[k] = ret[i]
        /\ \A i, j \in 1..Len(ret) : i < j => InOrder(ret[i], ret[j])

\* every stored entry that is wanted is returned, once
QueryReturnsAllWanted ==
    op = "query" =>
        /\ \A k \in 1..Len(Entries) :
             Wanted(Entries[k], args.user_id, window)
                 => \E i \in 1..Len(ret) : ret[i] = Entries[k]
        /\ Len(ret) = Cardinality({k \in 1..Len(Entries) :
                                      Wanted(Entries[k], args.user_id, window)})

\* C17: after any adds and deletes, get_schedules_by_date_range(start, end,
\* owner) returns exactly the stored entries of owner that are not deleted
\* and dated from start to end, ascending by date and time, the entries of
\* the whole day before the timed entries of the same date.
C17_RangeQueryExact == QueryReturnsOnlyWanted /\ QueryReturnsAllWanted

\* the entries with this id that this owner can delete
Deletable(schedule_id, owner) ==
    {k \in 1..Len(Entries) :
        /\ Entries[k].ID = schedule_id
        /\ Entries[k].user = owner
        /\ Entries[k].status = YouXiao}

\* a delete-by-id command: it returns an entry only if the owner has an
\* active entry with the id, which it marks deleted and no other; otherwise
\* it returns none and changes nothing
DeleteByIdStep ==
    (op' = "delete_by_id" /\ now' = now) =>
        LET schedule_id == args'.schedule_id
            owner       == args'.user_id
        IN  IF ret' # NoRecord
            THEN /\ ret'.ID = schedule_id /\ ret'.user = owner
                 /\ \E k \in Deletable(schedule_id, owner) :
                      /\ Entries' = [Entries EXCEPT ![k].status = YiShanChu]
                      /\ [ret' EXCEPT !.status = YouXiao] = Entries[k]
            ELSE /\ sheet' = sheet
                 /\ memory_storage' = memory_storage

\* with no active entry of the owner under the id, none is returned
DeleteByIdNotFound ==
    (op' = "delete_by_id" /\ now' = now) =>
        (Deletable(args'.schedule_id, args'.user_id) = {} => ret' = NoRecord)

\* a delete that follows a successful delete of the same id by the same
\* owner returns none
SecondDeleteNotFound ==
    (op = "delete_by_id" /\ op' = "delete_by_id" /\ now' = now
        /\ args' = args /\ ret # NoRecord) => ret' = NoRecord

\* C18: delete_schedule_by_id(id, owner) marks an entry deleted and returns
\* it only if an entry with the id exists, belongs to owner and is active;
\* otherwise it returns not-found and leaves the store unchanged; a second
\* delete of the same id by the same owner returns not-found.
C18_DeleteById ==
    [][DeleteByIdStep /\ DeleteByIdNotFound /\ SecondDeleteNotFound]_vars

\* the records of a store stay where they are and keep every field but the
\* status, which stays or goes from valid to deleted
Kept(before, after) ==
    /\ Len(after) >= Len(before)
    /\ \A k \in 1..Len(before) :
         /\ [after[k] EXCEPT !.status = YouXiao] = [before[k] EXCEPT !.status = YouXiao]
         /\ before[k].status \in {YouXiao, YiShanChu}
         /\ after[k].status \in {YouXiao, YiShanChu}
         /\ before[k].status = YiShanChu => after[k].status = YiShanChu

C20_IdsUnique ==
    \A i, j \in 1..Len(Entries) : i # j => Entries[i].ID # Entries[j].ID

-----------------------------------------------------------------------------
(* handle_message, 倒數 N 分鐘: the countdown timers                         *)

DaoShu == <<"dao", "shu">>

FenZhong == <<"fen", "zhong">>

\* the timers one run of the program starts at most
MaxTimers == 2

\* re.search(r'\d+', text).group(): the first run of digits, <<>> for none
FirstDigits(t) ==
    LET i == First({k \in 1..Len(t) : t[k] \in Digit})
    IN  IF i = 0 THEN <<>> ELSE SubSeq(t, i, i + RunLen(t, i, Digit) - 1)

in_range_ZeroAllowed(minute) == minute <= 60

\* 0 < minute <= 60
in_range(minute) == 0 < minute /\ minute <= 60

target_id_UserFirst(source) == source.user_id

\* the group when there is one, else the room, else the user
target_id(source) ==
    IF Truthy(source.group_id) THEN source.group_id
    ELSE IF Truthy(source.room_id) THEN source.room_id
    ELSE source.user_id

\* event.source of a chat with the bot alone, of a group, of a room
Source(user_id, group_id, room_id) ==
    [user_id |-> user_id, group_id |-> group_id, room_id |-> room_id]

Sources ==
    { Source(UserA, None, None),
      Source(UserA, <<"G", "1">>, None),
      Source(UserB, None, <<"R", "1">>),
      Source(UserB, <<"G", "1">>, <<"R", "1">>) }

\* the numbers N of the messages 倒數 N 分鐘
CountdownNumbers == {0, 1, 2, 59, 60, 61, 100}

\* 倒數 N 分鐘, written with or without blanks, and 倒數 分鐘, 倒數 5
CountdownText(n, sp) == DaoShu \o sp \o str(n) \o sp \o FenZhong

OtherCountdownTexts == { DaoShu \o <<" ">> \o FenZhong, DaoShu \o <<" ", "5">> }

\* Timer(minute * 60, send_reminder), started and not yet run
NewTimer(minute, source) ==
    [seconds |-> minute * 60, target_id |-> target_id(source), state |-> "waiting",
     pushed |-> 0]

\* handle_message on a message that starts with 倒數
Countdown ==
    /\ Len(timers) < MaxTimers
    /\ \E source \in Sources :
         \E t \in {CountdownText(n, sp) : n \in CountdownNumbers, sp \in Seps}
                  \cup OtherCountdownTexts :
           /\ op' = "countdown"
           /\ text' = t
           /\ args' = [source |-> source]
           /\ IF ~Contains(t, FenZhong) \/ FirstDigits(t) = <<>>
              THEN /\ reply' = Reply.countdown_format
                   /\ timers' = timers
              ELSE IF in_range(int(FirstDigits(t)))
              THEN /\ reply' = Reply.countdown_started
                   /\ timers' = Append(timers, NewTimer(int(FirstDigits(t)), source))
              ELSE /\ reply' = Reply.countdown_range
                   /\ timers' = timers
           /\ pushes' = <<>>
           /\ UNCHANGED <<now, hostBehind, msg, result, window, ret, useSheets, sheet,
                          memory_storage>>

\* send_reminder of timer i: one push to the target, whose failure is logged
send_reminder(i) ==
    /\ i <= Len(timers)
    /\ timers[i].state = "waiting"
    /\ \E ok \in BOOLEAN :
         pushes' = <<[to |-> timers[i].target_id, ok |-> ok]>>
    /\ timers' = [timers EXCEPT ![i].state = "finished", ![i].pushed = @ + 1]
    /\ op' = "send_reminder"
    /\ args' = [timer |-> i]
    /\ text' = <<>>
    /\ reply' = NoReply
    /\ UNCHANGED <<now, hostBehind, msg, result, window, ret, useSheets, sheet,
                   memory_storage>>

CountdownInit ==
    /\ now \in StoreInstants
    /\ hostBehind = 0
    /\ useSheets = FALSE
    /\ EmptyStore
    /\ msg = BaseMsg
    /\ Idle

CountdownNext == Countdown \/ \E i \in 1..MaxTimers : send_reminder(i)

\* threading.Timer runs send_reminder of every started timer when its time is up
CountdownSpec ==
    /\ CountdownInit
    /\ [][CountdownNext]_vars
    /\ \A i \in 1..MaxTimers : WF_vars(send_reminder(i))

-----------------------------------------------------------------------------
(* message_handler.process_message and the ScheduleManager of               *)
(* schedule_manager.py: the two questions 今天有哪些行程 and 明天有哪些行程    *)

JinTianYouNaXieXingCheng == <<"jin", "tian", "you", "na", "xie", "xing", "cheng">>

MingTianYouNaXieXingCheng == <<"ming", "tian", "you", "na", "xie", "xing", "cheng">>

\* manager.timezone.utcoffset(datetime.now()) of Asia/Taipei, in hours
utcoffset == 8

\* datetime.now(manager.timezone).strftime("%Y-%m-%d")
today == strftime_ymd(TodayTZ)

\* (datetime.now(manager.timezone) + utcoffset).strftime("%Y-%m-%d")
tomorrow ==
    strftime_ymd(AddDays(TodayTZ, (now.hour + utcoffset) \div 24))

\* a row of the sheet of schedule_manager.py
Row(user_id, date, time, content) ==
    [user |-> user_id, date |-> date, time |-> time, content |-> content]

\* get_schedules_by_date(user_id, target_date)
get_schedules_by_date(user_id, target_date) ==
    LET Mine(row) == row.user = user_id /\ row.date = target_date
    IN  SelectSeq(sheet, Mine)

\* the replies of process_message, each by what it says
Response ==
    [ none_found |-> "no schedules found", list |-> "the schedules of the day",
      invalid |-> "enter a valid command" ]

\* the text has a date M月D or M/D
HasDateMatch(t) ==
    \/ re_search(Dd12 \o Lit("yue") \o Dd12, t)
    \/ re_search(Dd12 \o Lit("/") \o Dd12, t)

\* the instants of a day, hour by hour
HandlerInstants ==
    {[date |-> d, hour |-> h, minute |-> 0, second |-> 0] :
        d \in {Date(2024, 6, 14), Date(2024, 2, 28), Date(2024, 12, 31)},
        h \in 0..23}

\* the sheet: entries of UserA and UserB on the days around the instants
HandlerSheet ==
    << Row(UserA, strftime_ymd(Date(2024, 6, 14)), <<>>, <<"A">>),
       Row(UserA, strftime_ymd(Date(2024, 6, 15)), <<"0", "9", ":", "0", "0">>, <<"B">>),
       Row(UserB, strftime_ymd(Date(2024, 6, 15)), <<>>, <<"A">>),
       Row(UserA, strftime_ymd(Date(2025, 1, 1)), <<>>, <<"A">>),
       Row(UserB, strftime_ymd(Date(2024, 2, 29)), <<>>, <<"B">>) >>

HandlerInit ==
    /\ now \in HandlerInstants
    /\ hostBehind \in HostOffsets
    /\ useSheets = TRUE
    /\ sheet = HandlerSheet
    /\ memory_storage = <<>>
    /\ msg = BaseMsg
    /\ Idle

\* process_message(text, user_id, manager) on a question or on a text
\* without a date
process_message ==
    /\ \E user_id \in {UserA, UserB},
          t \in {JinTianYouNaXieXingCheng, MingTianYouNaXieXingCheng, <<"A", " ", "B">>} :
         /\ op' = "process_message"
         /\ text' = t
         /\ IF t = JinTianYouNaXieXingCheng \/ t = MingTianYouNaXieXingCheng
            THEN \E target_date \in {IF t = JinTianYouNaXieXingCheng THEN today
                                     ELSE tomorrow} :
                   /\ args' = [user_id |-> user_id, target_date |-> target_date]
                   /\ ret' = get_schedules_by_date(user_id, target_date)
                   /\ reply' = IF get_schedules_by_date(user_id, target_date) = <<>>
                               THEN Response.none_found ELSE Response.list
            ELSE /\ ~HasDateMatch(t)
                 /\ args' = [user_id |-> user_id]
                 /\ ret' = None
                 /\ reply' = Response.invalid
    /\ UNCHANGED <<now, hostBehind, msg, result, window, useSheets, sheet,
                   memory_storage, jobVars>>

HandlerNext == process_message

HandlerSpec == HandlerInit /\ [][HandlerNext]_vars

-----------------------------------------------------------------------------
(* delete_schedule_by_id in two request threads.  The server handles each  *)
(* request in a thread of its own; the function holds no lock, so the      *)
(* read of the status and the write of 已刪除 are two steps, and steps of   *)
(* the other thread may come between them.  args holds, for each thread,   *)
(* its position and its locals; ret what it returned.                      *)

Threads == {1, 2}

\* the call delete_schedule_by_id(schedule_id, user_id) of a thread, not begun
Call(schedule_id, user_id) ==
    [pc |-> "called", schedule_id |-> schedule_id, user_id |-> user_id,
     row |-> 0, record |-> NoRecord]

\* the first three entries of RangeStore, in the sheet or in memory_storage
RaceInit ==
    /\ now \in StoreInstants
    /\ hostBehind = 0
    /\ useSheets \in BOOLEAN
    /\ sheet = IF useSheets THEN SubSeq(RangeStore, 1, 3) ELSE <<>>
    /\ memory_storage = IF useSheets THEN <<>> ELSE SubSeq(RangeStore, 1, 3)
    /\ op = "idle" /\ text = <<>> /\ msg = BaseMsg /\ result = NoResult
    /\ window = NoWindow /\ timers = <<>> /\ pushes = <<>> /\ reply = NoReply
    /\ args \in [Threads -> {Call(RangeStore[i].ID, u) : i \in {1, 3},
                                                          u \in {UserA, UserB}}]
    /\ ret = [t \in Threads |-> NoRecord]

\* the loop up to the test of the status: get_all_records() in spreadsheet
\* mode, the list itself in memory mode; the first record with the id, of the
\* user, not deleted
read_status(t) ==
    /\ args[t].pc = "called"
    /\ LET Hit(record) ==
               /\ record.ID = args[t].schedule_id
               /\ record.user = args[t].user_id
               /\ record.status # YiShanChu
           i == First({k \in 1..Len(all_records) : Hit(all_records[k])})
       IN  IF i = 0
           THEN args' = [args EXCEPT ![t].pc = "done"]
           ELSE args' = [args EXCEPT ![t].pc = "found", ![t].row = i,
                                     ![t].record = all_records[i]]
    /\ op' = "read_status"
    /\ UNCHANGED <<now, hostBehind, text, msg, result, window, useSheets, sheet,
                   memory_storage, ret, jobVars, reply>>

\* self.sheet.update(f'H{row_num}', '已刪除') or record['狀態'] = '已刪除',
\* and return record: the record as read from the sheet, the record itself in
\* memory mode
write_deleted(t) ==
    /\ args[t].pc = "found"
    /\ args' = [args EXCEPT ![t].pc = "done"]
    /\ IF useSheets
       THEN /\ sheet' = update_H(args[t].row + 1, YiShanChu)
            /\ ret' = [ret EXCEPT ![t] = args[t].record]
            /\ UNCHANGED memory_storage
       ELSE /\ memory_storage' = [memory_storage EXCEPT ![args[t].row].status = YiShanChu]
            /\ ret' = [ret EXCEPT ![t] = [memory_storage[args[t].row]
                                            EXCEPT !.status = YiShanChu]]
            /\ UNCHANGED sheet
    /\ op' = "write_deleted"
    /\ UNCHANGED <<now, hostBehind, text, msg, result, window, useSheets, jobVars,
                   reply>>

RaceNext == \E t \in Threads : read_status(t) \/ write_deleted(t)

RaceSpec == RaceInit /\ [][RaceNext]_vars

-----------------------------------------------------------------------------
(* the branch that adds: what add_schedule was given and what it did       *)

\* handle_message reached the call of add_schedule
AddCalled == op = "add" /\ Truthy(result.date) /\ Truthy(result.content)

\* the time handed to add_schedule is empty or a time of day
TimeOfDay(time_str) == ~Truthy(time_str) \/ strptime_time_ok(time_str)

\* the message is M/D of a day of the civil year that is before today
PassedThisYear(x) ==
    /\ x.form = "slash"
    /\ ValidDate(TodayTZ.year, int(x.m), int(x.d))
    /\ DateNum(Date(TodayTZ.year, int(x.m), int(x.d))) < DateNum(TodayTZ)

\* the date of created_time, the first ten characters of the stamp
CreatedDateNum(record) == DateNumOf(SubSeq(record.created, 1, 10))

TodayEarlierHourKept ==
    /\ AddCalled
    /\ msg.form = "rel" /\ msg.day = "jin" /\ msg.tform = "hour"
    /\ TimeNumOf(result.time) < now.hour * 100
    /\ IsId(ret)

\* C27: every result of parse_natural_input has an empty time or a time of
\* day, HH:MM with hour 0-23 and minute 0-59; a parsed message dated today or
\* later is stored by add_schedule and never ends in the failure reply; and
\* every stored entry has a calendar date and an empty time or a time of day.
C27_ParsedTimeAccepted ==
    /\ (op \in {"parse_natural_input", "parse_schedule_input", "add"}
          /\ result # NoResult) => TimeOfDay(result.time)
    /\ (AddCalled /\ strptime_date(result.date) # ValueError
          /\ DateNumOf(result.date) >= DateNum(TodayTZ)) =>
         (IsId(ret) /\ reply = Reply.added)
    /\ \A i \in 1..Len(Entries) :
         /\ strptime_date(Entries[i].date) # ValueError
         /\ TimeOfDay(Entries[i].time)

\* C28: the year parse_natural_input gives to a slash date M/D is the year
\* of today in the civil timezone, at every instant and for every host clock.
C28_SlashYearIsCivilYear ==
    (Parsing /\ msg.form = "slash" /\ result # NoResult) =>
        int(SubSeq(result.date, 1, 4)) = TodayTZ.year

-----------------------------------------------------------------------------
(* deleting by date and keyword in the chat                                *)

\* the delete messages whose date is written M/D or M月D號
DatedDeleteParts == { <<"6", "/", "2", "4">>, <<"6", "yue", "2", "4", "hao">> }

\* the date a written M/D or M月D號 stands for, in the civil year
CivilDateOf(date_part) ==
    LET slash   == re_match(D12 \o Lit("/") \o D12, date_part)
        chinese == re_match(ChineseDate, date_part)
        g       == IF slash.ok THEN slash.groups ELSE chinese.groups
    IN  strftime_ymd(Date(TodayTZ.year, int(g[1]), int(g[2])))

\* the places of the owner's active entries of the date that contain the keyword
Matching(owner, date_str, keyword) ==
    {k \in 1..Len(Entries) :
        /\ Entries[k].user = owner
        /\ Entries[k].date = date_str
        /\ Contains(Entries[k].content, keyword)
        /\ Entries[k].status = YouXiao}

\* the step is handle_message on 刪除行程 <date_part> <keyword>
DeleteMessageStep(date_part, keyword) ==
    /\ op' = "delete"
    /\ now' = now
    /\ EndsWith(text', DeleteText(date_part, keyword))

\* C22: 刪除行程 <date> <keyword> with the date written M/D or M月D號, from a
\* user with an active entry of that date (current year) that contains the
\* keyword, marks the first such entry deleted, changes no other entry and is
\* answered with the success reply.
C22_KeywordDeleteInChat ==
    [][\A date_part \in DatedDeleteParts :
         LET hits == Matching(args'.user_id, CivilDateOf(date_part), <<"A">>)
         IN  (DeleteMessageStep(date_part, <<"A">>) /\ hits # {}) =>
                /\ Entries' = [Entries EXCEPT ![First(hits)].status = YiShanChu]
                /\ reply' = Reply.keyword_deleted]_vars

-----------------------------------------------------------------------------
(* what was added stays within reach                                       *)

\* record is among the records a query returned
Returned(record, schedules) == \E i \in 1..Len(schedules) : schedules[i] = record

\* the active entry at place k is returned by a query of its owner for its
\* day alone and for the week around it, is found by its id, and is deleted
\* by its id
Manageable(k) ==
    LET e == Entries[k]
        d == strptime_date(e.date)
        o == delete_schedule_by_id(e.ID, e.user)
    IN  /\ Returned(e, get_schedules_by_date_range(d, d, e.user))
        /\ Returned(e, get_schedules_by_date_range(AddDays(d, -3), AddDays(d, 3),
                                                   e.user))
        /\ get_schedule_by_id(e.ID, e.user) # NoRecord
        /\ get_schedule_by_id(e.ID, e.user).ID = e.ID
        /\ o.ret # NoRecord
        /\ \E j \in 1..Len(Entries) :
             /\ Entries[j].ID = e.ID /\ Entries[j].user = e.user
             /\ o.sheet \o o.memory_storage = [Entries EXCEPT ![j].status = YiShanChu]

\* C25: every entry add_schedule returned an id for is, until it is deleted,
\* returned by the range query of its owner for a window with its date,
\* found by get_schedule_by_id and deleted by delete_schedule_by_id, in memory
\* mode, in spreadsheet mode and after a failed spreadsheet write.
C25_AddedEntriesManageable ==
    \A k \in 1..Len(Entries) : Entries[k].status = YouXiao => Manageable(k)

\* the same with the spreadsheet write never failing and one id per entry
ManageableWithoutFallback ==
    (/\ useSheets => memory_storage = <<>>
     /\ \A i, j \in 1..Len(Entries) : i # j => Entries[i].ID # Entries[j].ID)
    => C25_AddedEntriesManageable

-----------------------------------------------------------------------------
(* the Friday digest                                                       *)

\* the users that own an entry, not deleted, dated inside the window w
Owners(w) ==
    {Entries[k].user : k \in {j \in 1..Len(Entries) :
                                  /\ Entries[j].status # YiShanChu
                                  /\ DatedInside(Entries[j], w)}}

\* a run pushes once to every owner and to nobody else, whether or not the
\* pushes before it failed
OnePushPerOwner ==
    /\ \A u \in Owners(window) :
         Cardinality({i \in 1..Len(pushes) : pushes[i].to = u}) = 1
    /\ \A i \in 1..Len(pushes) : pushes[i].to \in Owners(window)

\* a push carries the entries of its user that are wanted, each once, in order
PushedInOrder ==
    \A i \in 1..Len(pushes) :
        LET sent == pushes[i].schedules
        IN  /\ \A a \in 1..Len(sent) :
                 /\ Wanted(sent[a], pushes[i].to, window)
                 /\ \E k \in 1..Len(Entries) : Entries[k] = sent[a]
            /\ Len(sent) = Cardinality({k \in 1..Len(Entries) :
                                           Wanted(Entries[k], pushes[i].to, window)})
            /\ \A a, b \in 1..Len(sent) : a < b => InOrder(sent[a], sent[b])

\* C24: a run of friday_reminder attempts one push to every user that owns
\* an entry, not deleted, dated inside the week two weeks on, and none to
\* any other user; the entries of a push are ordered by date and time; a
\* failed push does not keep the later pushes from being attempted.
C24_FridayPushes ==
    op = "friday_reminder" => (OnePushPerOwner /\ PushedInOrder)

\* the same with the spreadsheet write never failing
FridayPushesWithoutFallback ==
    (useSheets => memory_storage = <<>>) => C24_FridayPushes

\* both users own an entry of the week, the first push failed, the second
\* was attempted
FridayPushAfterFailure ==
    /\ op = "friday_reminder"
    /\ Len(pushes) = 2
    /\ ~pushes[1].ok
    /\ pushes[2].ok

\* one user is pushed two entries of one day, the whole-day entry added last
FridayPushSorted ==
    /\ op = "friday_reminder"
    /\ Len(pushes) = 1
    /\ Len(pushes[1].schedules) = 2
    /\ pushes[1].schedules[1] = Entries[2]

-----------------------------------------------------------------------------
(* the countdown                                                           *)

\* whom the reminder of a message from source is for
Addressee(source) ==
    IF source.group_id # None THEN source.group_id
    ELSE IF source.room_id # None THEN source.room_id
    ELSE source.user_id

\* handle_message on 倒數 N 分鐘: for N from 1 to 60 one timer of N minutes for
\* the addressee is started; for any other N none, and the range error is the
\* reply; no push is made by the handler itself
CountdownStep ==
    \A n \in CountdownNumbers, sp \in Seps :
        (op' = "countdown" /\ text' = CountdownText(n, sp) /\ vars' # vars) =>
            /\ pushes' = <<>>
            /\ IF 1 <= n /\ n <= 60
               THEN /\ timers' = Append(timers,
                                        [seconds |-> n * 60,
                                         target_id |-> Addressee(args'.source),
                                         state |-> "waiting", pushed |-> 0])
                    /\ reply' = Reply.countdown_started
               ELSE /\ timers' = timers
                    /\ reply' = Reply.countdown_range

\* timer i does its push in this step
Rings(i) ==
    /\ i <= Len(timers)
    /\ timers[i].state = "waiting"
    /\ timers' = [timers EXCEPT ![i].state = "finished", ![i].pushed = 1]
    /\ Len(pushes') = 1
    /\ pushes'[1].to = timers[i].target_id

\* a started timer stays, and changes only by its one push; a step that is
\* no message starts no timer
TimerStep ==
    /\ Len(timers') >= Len(timers)
    /\ timers' # timers =>
         \/ op' = "countdown" /\ SubSeq(timers', 1, Len(timers)) = timers
         \/ \E i \in 1..Len(timers) : Rings(i)

\* a timer that waits has pushed nothing, one that has run has pushed once
PushedOnce ==
    \A i \in 1..Len(timers) :
        /\ timers[i].state \in {"waiting", "finished"}
        /\ timers[i].pushed = IF timers[i].state = "finished" THEN 1 ELSE 0

\* timer i has been started / has run
Started(i) == Len(timers) >= i

Finished(i) == Len(timers) >= i /\ timers[i].state = "finished"

\* C23: 倒數 N 分鐘 starts a timer if and only if 1 <= N <= 60; every started
\* timer eventually attempts its reminder push, exactly once, to the group
\* of the message, else to its room, else to the sender; for N = 0 and for
\* N > 60 no timer is started and the range error is the only reply.
C23_Countdown ==
    /\ [][CountdownStep /\ TimerStep]_vars
    /\ []PushedOnce
    /\ \A i \in 1..MaxTimers : Started(i) ~> Finished(i)

\* the timer of a message from the group has pushed to the group, the push
\* failed, and a second timer still waits
C23_Witness ==
    /\ op = "send_reminder"
    /\ Len(timers) = 2
    /\ timers[1].state = "finished"
    /\ timers[1].target_id = <<"G", "1">>
    /\ timers[1].pushed = 1
    /\ timers[2].state = "waiting"
    /\ pushes = <<[to |-> <<"G", "1">>, ok |-> FALSE]>>

-----------------------------------------------------------------------------
(* message_handler: tomorrow                                               *)

\* C29: in process_message the question 明天有哪些行程 asks the store for the
\* date of today + 1 day in the civil timezone, at every time of day.
C29_TomorrowIsNextDay ==
    (op = "process_message" /\ text = MingTianYouNaXieXingCheng) =>
        /\ args.target_date = strftime_ymd(AddDays(TodayTZ, 1))
        /\ DateNumOf(args.target_date) > DateNumOf(today)

-----------------------------------------------------------------------------
(* two deletes of one entry at once                                        *)

\* both threads were asked to delete the same id for the same owner
SameRequest ==
    /\ args[1].schedule_id = args[2].schedule_id
    /\ args[1].user_id = args[2].user_id

\* C26: of two delete_schedule_by_id requests for the same id and owner that
\* are handled at the same time, at most one returns the entry; the other
\* returns not-found.
C26_OneDeleteSucceeds ==
    (SameRequest /\ \A t \in Threads : args[t].pc = "done") =>
        (ret[1] = NoRecord \/ ret[2] = NoRecord)

\* one after the other: a thread that reads after the other has written
\* finds nothing
DeleteAfterDelete ==
    \A t, u \in Threads :
        (SameRequest /\ t # u /\ args[t].pc = "done" /\ ret[t] # NoRecord
            /\ args[u].pc = "called")
        => ~ENABLED (read_status(u) /\ args'[u].pc = "found")

====
